---- MODULE Spec2Model ----
(***************************************************************************)
(* Model of tools/resolve_schema.py: the recursive $ref resolver of the     *)
(* building-block schemas.                                                  *)
(*                                                                          *)
(* Encoding.  A schema node (a parsed YAML/JSON value) is a record          *)
(* [kind, fields, items, text]: kind "obj" with fields a function from key  *)
(* strings to nodes, kind "arr" with items a sequence of nodes, kind "str"  *)
(* with text a string, kind "null"; the fields a kind does not use are      *)
(* empty.  A Python string is a sequence of tokens: "#" and "/" are         *)
(* always tokens of their own, every other token is a run of characters     *)
(* holding neither, so that startswith, split("#"), split("/") and          *)
(* lstrip("/") are computed on the sequence as Python computes them on the  *)
(* characters.  A canonical path is the sequence of its components.         *)
(* Python dicts compare equal whatever their key order; the one place where *)
(* the resolver's result depends on key order is the iteration over $defs,  *)
(* so a file carries the declaration order of its $defs (deforder).         *)
(*                                                                          *)
(* The resolver runs as a stack machine: one frame per active Python call   *)
(* of resolve_file, resolve_node, _inline_unresolved_defs, _resolve_ref and *)
(* _resolve_bblocks_ref, one action per stage of each function.             *)
(***************************************************************************)
EXTENDS Integers, Sequences, FiniteSets, TLC

VARIABLES
    files,         \* the file system: canonical path -> [syntax, root, deforder]
    bblock_index,  \* identifier -> canonical path (built once, read-only)
    root_path,     \* the schema path handed to main
    stack,         \* the active Python calls, innermost last
    ret,           \* the value the last finished call returned
    status,        \* "start", "resolving", "resolved", "stripped", "done",
                   \* "raised"
    result,        \* the resolved document, once status is "resolved"
    exc,           \* the exception that ended the run, once status is "raised"
    args,          \* the command line: [keep_metadata, strip_keys_given,
                   \* strip_keys, flatten_allof]
    output,        \* the document main writes: result, stripped and flattened
    parked         \* the runs that share files and index with the active run and
                   \* are not executing now: name -> their root_path, stack,
                   \* ret, status, result, exc and output (none when one run
                   \* has the process to itself)

vars == <<files, bblock_index, root_path, stack, ret, status, result, exc, args, output,
          parked>>

----------------------------------------------------------------------------
(* Schema nodes *)

Obj(f) == [kind |-> "obj", fields |-> f, items |-> <<>>, text |-> <<>>]
Arr(s) == [kind |-> "arr", fields |-> <<>>, items |-> s, text |-> <<>>]
Str(s) == [kind |-> "str", fields |-> <<>>, items |-> <<>>, text |-> s]
Null == [kind |-> "null", fields |-> <<>>, items |-> <<>>, text |-> <<>>]
EmptyDict == Obj(<<>>)

IsDict(n) == n.kind = "obj"
IsList(n) == n.kind = "arr"
IsStr(n) == n.kind = "str"
Keys(n) == DOMAIN n.fields
HasKey(n, key) == IsDict(n) /\ key \in DOMAIN n.fields

\* d[key] = v on a dict
DictPut(d, key, v) ==
    Obj([x \in (DOMAIN d.fields) \cup {key} |-> IF x = key THEN v ELSE d.fields[x]])

\* d.pop(key, None) / {k: v for k, v in d.items() if k != key}
DictWithout(d, key) ==
    Obj([x \in (DOMAIN d.fields) \ {key} |-> d.fields[x]])

\* Python truthiness of a loaded value (yaml.safe_load(f) or {})
Falsy(n) ==
    \/ n.kind = "null"
    \/ n.kind = "obj" /\ DOMAIN n.fields = {}
    \/ n.kind = "arr" /\ n.items = <<>>
    \/ n.kind = "str" /\ n.text = <<>>

\* A fixed iteration order over a key set (the result of every loop over a
\* dict but the $defs loops is the same for every order).
RECURSIVE KeySeq(_)
KeySeq(S) ==
    IF S = {} THEN <<>>
    ELSE LET x == CHOOSE y \in S : TRUE IN <<x>> \o KeySeq(S \ {x})

----------------------------------------------------------------------------
(* Strings as token sequences *)

StartsWith(s, p) == Len(s) >= Len(p) /\ SubSeq(s, 1, Len(p)) = p

Contains(s, tok) == \E i \in 1..Len(s) : s[i] = tok

FirstIndex(s, tok) == CHOOSE i \in 1..Len(s) : s[i] = tok /\ \A j \in 1..(i-1) : s[j] # tok

\* s.split(tok): the list of segments, each a token sequence
RECURSIVE Split(_, _)
Split(s, tok) ==
    IF ~Contains(s, tok) THEN <<s>>
    ELSE LET i == FirstIndex(s, tok)
         IN <<SubSeq(s, 1, i - 1)>> \o Split(SubSeq(s, i + 1, Len(s)), tok)

\* s.split(tok, 1) for an s that contains tok
SplitOnce(s, tok) ==
    LET i == FirstIndex(s, tok)
    IN <<SubSeq(s, 1, i - 1), SubSeq(s, i + 1, Len(s))>>

\* s.lstrip(tok)
RECURSIVE LStrip(_, _)
LStrip(s, tok) ==
    IF s # <<>> /\ Head(s) = tok THEN LStrip(Tail(s), tok) ELSE s

\* The characters of a token sequence as one string (a dict key, a path component)
RECURSIVE Join(_)
Join(s) == IF s = <<>> THEN "" ELSE Head(s) \o Join(Tail(s))

\* "/".join(parts) as tokens
RECURSIVE JoinSlash(_)
JoinSlash(parts) ==
    IF parts = <<>> THEN <<>>
    ELSE IF Len(parts) = 1 THEN <<parts[1]>>
    ELSE <<parts[1], "/">> \o JoinSlash(Tail(parts))

\* str(path) of a canonical (absolute) path
RECURSIVE PathStr(_)
PathStr(p) == IF p = <<>> THEN <<>> ELSE <<"/", Head(p)>> \o PathStr(Tail(p))

\* int(part): defined on the decimal literals the inputs use; any other
\* string makes int() raise ValueError
IntLiterals == ("0" :> 0) @@ ("1" :> 1) @@ ("2" :> 2) @@ ("3" :> 3) @@ ("5" :> 5)
                   @@ ("-1" :> (0 - 1))

----------------------------------------------------------------------------
(* Paths and file loading *)

\* (base_dir / file_part).resolve(): the components of file_part applied to
\* base_dir, "." and empty components dropped, ".." going one directory up;
\* a file_part starting with "/" is absolute.
RECURSIVE WalkPath(_, _)
WalkPath(dir, comps) ==
    IF comps = <<>> THEN dir
    ELSE LET c == Head(comps)
         IN IF c = "" \/ c = "." THEN WalkPath(dir, Tail(comps))
            ELSE IF c = ".."
                 THEN WalkPath(IF dir = <<>> THEN dir ELSE SubSeq(dir, 1, Len(dir) - 1),
                               Tail(comps))
            ELSE WalkPath(Append(dir, c), Tail(comps))

ResolvePath(base_dir, file_part) ==
    LET segs == Split(file_part, "/")
        comps == [i \in 1..Len(segs) |-> Join(segs[i])]
    IN WalkPath(IF StartsWith(file_part, <<"/">>) THEN <<>> ELSE base_dir, comps)

\* path.parent
Parent(path) == IF path = <<>> THEN path ELSE SubSeq(path, 1, Len(path) - 1)

IsFile(fs, path) == path \in DOMAIN fs
IsDir(fs, path) ==
    \E f \in DOMAIN fs : Len(f) > Len(path) /\ SubSeq(f, 1, Len(path)) = path

\* file_path.exists()
PathExists(fs, path) == IsFile(fs, path) \/ IsDir(fs, path)

\* A call either returns a value or raises.
Ok(v) == [ok |-> TRUE, val |-> v, err |-> "", msg |-> <<>>]
Raises(e, m) == [ok |-> FALSE, val |-> Null, err |-> e, msg |-> m]

load_schema_file_lenient(fs, path) ==
    IF ~IsFile(fs, path)
    THEN Raises(IF IsDir(fs, path) THEN "IsADirectoryError" ELSE "FileNotFoundError", <<>>)
    ELSE LET f == fs[path]
         IN IF f.syntax = "malformed" THEN Ok(EmptyDict)
            ELSE IF f.syntax = "yaml"
                 THEN Ok(IF Falsy(f.root) THEN EmptyDict ELSE f.root)
            ELSE Ok(f.root)

load_schema_file(fs, path) ==
    IF ~IsFile(fs, path)
    THEN Raises(IF IsDir(fs, path) THEN "IsADirectoryError" ELSE "FileNotFoundError", <<>>)
    ELSE LET f == fs[path]
         IN IF f.syntax = "malformed" THEN Raises("ParseError", <<>>)
            ELSE IF f.syntax = "yaml"
                 THEN Ok(IF Falsy(f.root) THEN EmptyDict ELSE f.root)
            ELSE Ok(f.root)

----------------------------------------------------------------------------
(* JSON Pointer resolution *)

RECURSIVE FragmentWalk(_, _, _)
FragmentWalk(current, parts, all) ==
    IF parts = <<>> THEN Ok(current)
    ELSE LET part == Head(parts)
         IN IF IsDict(current) /\ part \in DOMAIN current.fields
            THEN FragmentWalk(current.fields[part], Tail(parts), all)
            ELSE IF IsList(current)
                 THEN IF part \notin DOMAIN IntLiterals
                      THEN Raises("ValueError", <<>>)
                      ELSE LET i == IntLiterals[part]
                               n == Len(current.items)
                           IN IF i >= 0 /\ i < n
                              THEN FragmentWalk(current.items[i + 1], Tail(parts), all)
                              ELSE IF i < 0 /\ n + i >= 0
                                   THEN FragmentWalk(current.items[n + i + 1], Tail(parts), all)
                              ELSE Raises("IndexError", <<>>)
            ELSE Raises("KeyError",    \* str(e) of a KeyError is the repr of its text
                        <<"\"Cannot resolve pointer ", "/">> \o JoinSlash(all)
                            \o <<" at part '", part, "'\"">>)

resolve_fragment(schema, pointer) ==
    LET segs == Split(LStrip(pointer, "/"), "/")
        parts == [i \in 1..Len(segs) |-> Join(segs[i])]
    IN FragmentWalk(schema, parts, parts)

----------------------------------------------------------------------------
(* Deep merge *)

SCHEMA_DEF_KEYS == {"type", "oneOf", "anyOf", "allOf", "$ref"}

is_complete_schema(d) == (DOMAIN d.fields) \cap SCHEMA_DEF_KEYS # {}

\* copy.deepcopy as it would be were the argument itself handed on
deepcopy_shared(node) == node

\* copy.deepcopy: every dict and list of the copy is a new object (a new
\* object has the empty text; a test marks the objects of an argument there);
\* strings and null are immutable and stay
RECURSIVE deepcopy(_)
deepcopy(node) ==
    IF IsDict(node) THEN Obj([key \in DOMAIN node.fields |-> deepcopy(node.fields[key])])
    ELSE IF IsList(node) THEN Arr([i \in 1..Len(node.items) |-> deepcopy(node.items[i])])
    ELSE node

RECURSIVE deep_merge_replacing(_, _, _)
deep_merge_replacing(base, overlay, in_properties) ==
    Obj([key \in (DOMAIN base.fields) \cup (DOMAIN overlay.fields) |->
        IF key \notin DOMAIN overlay.fields THEN base.fields[key]
        ELSE LET v == overlay.fields[key]
             IN IF key \in DOMAIN base.fields /\ IsDict(base.fields[key]) /\ IsDict(v)
                THEN IF is_complete_schema(v) THEN v
                     ELSE deep_merge_replacing(base.fields[key], v, in_properties)
                ELSE v])

RECURSIVE deep_merge_inner(_, _, _)
deep_merge_inner(base, overlay, in_properties) ==
    Obj([key \in (DOMAIN base.fields) \cup (DOMAIN overlay.fields) |->
        IF key \notin DOMAIN overlay.fields THEN deepcopy(base.fields[key])
        ELSE LET v == overlay.fields[key]
             IN IF key \in DOMAIN base.fields /\ IsDict(base.fields[key]) /\ IsDict(v)
                THEN IF in_properties /\ is_complete_schema(v) THEN deepcopy(v)
                     ELSE IF key = "properties"
                          THEN deep_merge_inner(base.fields[key], v, TRUE)
                     ELSE deep_merge_inner(base.fields[key], v, FALSE)
                ELSE deepcopy(v)])

deep_merge_base_wins(base, overlay) == deep_merge_inner(overlay, base, FALSE)

deep_merge(base, overlay) == deep_merge_inner(base, overlay, FALSE)

----------------------------------------------------------------------------
(* Metadata stripping *)

DEFAULT_STRIP_KEYS == {"$id", "x-jsonld-prefixes", "x-jsonld-context", "x-jsonld-extra-terms"}

\* k.startswith("x-jsonld"), on the keys the inputs use
XJsonldKeys == {"x-jsonld", "x-jsonld-prefixes", "x-jsonld-context", "x-jsonld-extra-terms",
                "x-jsonld-id"}

RECURSIVE strip_metadata_keys_skipping_lists(_, _, _)
strip_metadata_keys_skipping_lists(schema, strip_keys, is_root) ==
    IF IsDict(schema)
    THEN LET kept == {k \in DOMAIN schema.fields :
                        /\ k \notin strip_keys
                        /\ k \notin XJsonldKeys
                        /\ ~(k = "$schema" /\ ~is_root)}
         IN Obj([k \in kept |->
                    strip_metadata_keys_skipping_lists(schema.fields[k], strip_keys, FALSE)])
    ELSE schema

RECURSIVE strip_metadata_keys_as_root(_, _, _)
strip_metadata_keys_as_root(schema, strip_keys, is_root) ==
    IF IsDict(schema)
    THEN LET kept == {k \in DOMAIN schema.fields :
                        /\ k \notin strip_keys
                        /\ k \notin XJsonldKeys
                        /\ ~(k = "$schema" /\ ~is_root)}
         IN Obj([k \in kept |->
                    strip_metadata_keys_as_root(schema.fields[k], strip_keys, is_root)])
    ELSE IF IsList(schema)
    THEN Arr([i \in 1..Len(schema.items) |->
                 strip_metadata_keys_as_root(schema.items[i], strip_keys, is_root)])
    ELSE schema

RECURSIVE strip_metadata_keys(_, _, _)
strip_metadata_keys(schema, strip_keys, is_root) ==
    IF IsDict(schema)
    THEN LET kept == {k \in DOMAIN schema.fields :
                        /\ k \notin strip_keys
                        /\ k \notin XJsonldKeys
                        /\ ~(k = "$schema" /\ ~is_root)}
         IN Obj([k \in kept |-> strip_metadata_keys(schema.fields[k], strip_keys, FALSE)])
    ELSE IF IsList(schema)
    THEN Arr([i \in 1..Len(schema.items) |->
                 strip_metadata_keys(schema.items[i], strip_keys, FALSE)])
    ELSE schema

----------------------------------------------------------------------------
(* allOf flattening *)

\* MergeEntries as it would be were each entry the base of the merge and
\* what was merged before it the overlay: the earliest definition of a key wins
RECURSIVE MergeEntriesEarliestWins(_, _)
MergeEntriesEarliestWins(merged, entries) ==
    IF entries = <<>> THEN merged
    ELSE MergeEntriesEarliestWins(IF IsDict(Head(entries))
                                  THEN deep_merge(Head(entries), merged) ELSE merged,
                                  Tail(entries))

\* lines 347-349: merged = deep_merge(merged, entry) for every dict entry
RECURSIVE MergeEntries(_, _)
MergeEntries(merged, entries) ==
    IF entries = <<>> THEN merged
    ELSE MergeEntries(IF IsDict(Head(entries)) THEN deep_merge(merged, Head(entries))
                      ELSE merged,
                      Tail(entries))

\* Iterating over an allOf that is a dict or a string yields strings, which
\* are no dicts and are skipped; a list yields its items.
RECURSIVE flatten_allof_skipping_lists(_)
flatten_allof_skipping_lists(schema) ==
    IF IsDict(schema)
    THEN LET result_ == Obj([k \in DOMAIN schema.fields |->
                                flatten_allof_skipping_lists(schema.fields[k])])
         IN IF "allOf" \in DOMAIN result_.fields
            THEN MergeEntries(DictWithout(result_, "allOf"),
                              IF IsList(result_.fields["allOf"])
                              THEN result_.fields["allOf"].items ELSE <<>>)
            ELSE result_
    ELSE schema

RECURSIVE flatten_allof(_)
flatten_allof(schema) ==
    IF IsDict(schema)
    THEN LET result_ == Obj([k \in DOMAIN schema.fields |-> flatten_allof(schema.fields[k])])
         IN IF "allOf" \in DOMAIN result_.fields
            THEN MergeEntries(DictWithout(result_, "allOf"),
                              IF IsList(result_.fields["allOf"])
                              THEN result_.fields["allOf"].items ELSE <<>>)
            ELSE result_
    ELSE IF IsList(schema)
    THEN Arr([i \in 1..Len(schema.items) |-> flatten_allof(schema.items[i])])
    ELSE schema

\* line 347: "for entry in all_of" raises TypeError on an allOf that is null
RECURSIVE FlattenRaises(_)
FlattenRaises(schema) ==
    IF IsDict(schema)
    THEN \/ ("allOf" \in DOMAIN schema.fields /\ schema.fields["allOf"].kind = "null")
         \/ \E k \in DOMAIN schema.fields : FlattenRaises(schema.fields[k])
    ELSE IF IsList(schema)
    THEN \E i \in 1..Len(schema.items) : FlattenRaises(schema.items[i])
    ELSE FALSE

----------------------------------------------------------------------------
(* Diagnostic placeholders: {"$comment": "<text>"} *)

Comment(text) == Obj("$comment" :> Str(text))

CircularRef(canonical) == Comment(<<"circular ref to ">> \o PathStr(canonical))
UnresolvedFragmentRef(ref) == Comment(<<"unresolved fragment ref: ">> \o ref)
NoIndexAvailable(ref) == Comment(<<"bblocks ref (no index available): ">> \o ref)
FileNotFound(file_path) == Comment(<<"file not found: ">> \o PathStr(file_path))
NotInLocalIndex(ref) == Comment(<<"bblocks ref not found in local index: ">> \o ref)
NotABblocksRef(ref) == Comment(<<"not a bblocks ref: ">> \o ref)
CouldNotResolveFragment(fragment, where, msg) ==
    Comment(<<"could not resolve fragment ">> \o fragment \o <<" in ">> \o where
                \o <<": ">> \o msg)

----------------------------------------------------------------------------
(* The call stack *)

\* The Python calls that may nest before the interpreter raises RecursionError
MaxStack == 30

Top == stack[Len(stack)]
Running == status = "resolving" /\ stack # <<>>
At(fn, pc) == Running /\ Top.fn = fn /\ Top.pc = pc

NoDefs == <<>>

FileFrame(path, seen, keep_defs) ==
    [fn |-> "resolve_file", pc |-> "entry", path |-> path, seen |-> seen,
     keep_defs |-> keep_defs, schema |-> Null, defs |-> NoDefs, todo |-> <<>>,
     pass1 |-> NoDefs]    \* history: the defs table as it was when pass 1 ended

NodeFrame(node, base_dir, defs, seen) ==
    [fn |-> "resolve_node", pc |-> "entry", node |-> node, base_dir |-> base_dir,
     defs |-> defs, seen |-> seen, todo |-> <<>>, acc |-> Null, resolved |-> Null]

InlineFrame(node, defs, base_dir, seen) ==
    [fn |-> "inline_unresolved_defs", pc |-> "entry", node |-> node,
     base_dir |-> base_dir, defs |-> defs, seen |-> seen, todo |-> <<>>,
     acc |-> Null, resolved |-> Null]

RefFrame(ref, base_dir, defs, seen) ==
    [fn |-> "resolve_ref", pc |-> "entry", ref |-> ref, base_dir |-> base_dir,
     defs |-> defs, seen |-> seen, file_path |-> <<>>, fragment |-> <<>>]

BblocksFrame(ref, seen) ==
    [fn |-> "resolve_bblocks_ref", pc |-> "entry", ref |-> ref, seen |-> seen,
     schema_path |-> <<>>, fragment |-> <<>>]

\* Frozen as it would be were a looked-up identifier taken out of the index
\* that all runs share (bblock_index.pop in place of bblock_index[...])
FrozenButIndex ==
    /\ UNCHANGED <<files, root_path, args, output, parked>>
    /\ bblock_index' = IF At("resolve_bblocks_ref", "entry") THEN <<>> ELSE bblock_index

Frozen == UNCHANGED <<files, bblock_index, root_path, args, output, parked>>

\* Return as it would be were the in-progress set one object shared by every
\* call (seen.add(canonical) in place of seen | {canonical}): the path of a
\* finished resolve_file stays in the callers' sets.
ReturnSharedSeen(v) ==
    /\ stack' = [i \in 1..(Len(stack) - 1) |->
                    IF Top.fn = "resolve_file"
                    THEN [stack[i] EXCEPT !.seen = @ \cup {Top.path}]
                    ELSE stack[i]]
    /\ ret' = v
    /\ UNCHANGED <<status, result, exc>>
    /\ Frozen

\* The active call returns v to its caller.
Return(v) ==
    /\ stack' = SubSeq(stack, 1, Len(stack) - 1)
    /\ ret' = v
    /\ UNCHANGED <<status, result, exc>>
    /\ Frozen

\* An exception no handler catches unwinds every call and ends the run.
Raise(err) ==
    /\ stack' = <<>>
    /\ ret' = Null
    /\ status' = "raised"
    /\ exc' = err
    /\ UNCHANGED result
    /\ Frozen

\* The active call, continuing as frame top, calls callee.
Call(top, callee) ==
    IF Len(stack) >= MaxStack THEN Raise("RecursionError")
    ELSE /\ stack' = Append([stack EXCEPT ![Len(stack)] = top], callee)
         /\ UNCHANGED <<ret, status, result, exc>>
         /\ Frozen

\* The active call goes on as frame top.
Goto(top) ==
    /\ stack' = [stack EXCEPT ![Len(stack)] = top]
    /\ UNCHANGED <<ret, status, result, exc>>
    /\ Frozen

----------------------------------------------------------------------------
(* resolve_file *)

\* lines 179-197: the cycle check, the load, and the start of pass 1
ResolveFile_entry ==
    /\ At("resolve_file", "entry")
    /\ LET f == Top
           canonical == f.path
           seen == f.seen \cup {canonical}
           loaded == load_schema_file(files, canonical)
       IN IF canonical \in f.seen THEN Return(CircularRef(canonical))
          ELSE IF ~loaded.ok THEN Raise(loaded.err)
          ELSE IF ~IsDict(loaded.val) THEN Return(loaded.val)
          ELSE IF "$defs" \in DOMAIN loaded.val.fields
               THEN Goto([f EXCEPT !.pc = "pass1", !.seen = seen, !.schema = loaded.val,
                                   !.todo = files[canonical].deforder])
          ELSE Goto([f EXCEPT !.pc = "body", !.seen = seen, !.schema = loaded.val])

\* lines 198-199: pass 1 resolves the next definition with empty local defs
ResolveFile_pass1 ==
    /\ At("resolve_file", "pass1")
    /\ LET f == Top
       IN IF f.todo = <<>>
          THEN Goto([f EXCEPT !.pc = "pass2", !.todo = files[f.path].deforder,
                              !.pass1 = f.defs])
          ELSE Call([f EXCEPT !.pc = "pass1_ret"],
                    NodeFrame(f.schema.fields["$defs"].fields[Head(f.todo)], Parent(f.path),
                              NoDefs, f.seen))

\* line 199: defs[def_name] = <the resolved definition>
ResolveFile_pass1_ret ==
    /\ At("resolve_file", "pass1_ret")
    /\ LET f == Top
       IN Goto([f EXCEPT !.pc = "pass1", !.todo = Tail(f.todo),
                         !.defs = (Head(f.todo) :> ret) @@ f.defs])

\* lines 203-204: pass 2 re-walks the next definition with the defs table as
\* it is now
ResolveFile_pass2 ==
    /\ At("resolve_file", "pass2")
    /\ LET f == Top
       IN IF f.todo = <<>> THEN Goto([f EXCEPT !.pc = "body"])
          ELSE Call([f EXCEPT !.pc = "pass2_ret"],
                    InlineFrame(f.defs[Head(f.todo)], f.defs, Parent(f.path), f.seen))

\* line 204: defs[def_name] = <the re-walked definition>
ResolveFile_pass2_ret ==
    /\ At("resolve_file", "pass2_ret")
    /\ LET f == Top
       IN Goto([f EXCEPT !.pc = "pass2", !.todo = Tail(f.todo),
                         !.defs = (Head(f.todo) :> ret) @@ f.defs])

\* line 207: walk and resolve the entire schema
ResolveFile_body ==
    /\ At("resolve_file", "body")
    /\ LET f == Top
       IN Call([f EXCEPT !.pc = "body_ret"],
               NodeFrame(f.schema, Parent(f.path), f.defs, f.seen))

\* lines 211-214: drop $defs unless the caller keeps them, and return
ResolveFile_return ==
    /\ At("resolve_file", "body_ret")
    /\ Return(IF IsDict(ret) /\ ~Top.keep_defs THEN DictWithout(ret, "$defs") ELSE ret)

----------------------------------------------------------------------------
(* resolve_node *)

\* Items as it would be were the walk to leave out every "$defs" key
ItemsSkippingDefs(node) ==
    IF IsDict(node) THEN KeySeq((DOMAIN node.fields) \ {"$defs"})
    ELSE [i \in 1..Len(node.items) |-> i]

\* The items a walk over a dict or a list visits, in order: keys or indices
Items(node) == IF IsDict(node) THEN KeySeq(DOMAIN node.fields)
               ELSE [i \in 1..Len(node.items) |-> i]

Child(node, item) == IF IsDict(node) THEN node.fields[item] ELSE node.items[item]

EmptyLike(node) == IF IsDict(node) THEN EmptyDict ELSE Arr(<<>>)

\* result[k] = v / the next element of the list comprehension
WithItem(acc, item, v) ==
    IF IsDict(acc) THEN DictPut(acc, item, v) ELSE Arr(Append(acc.items, v))

\* lines 219-242: dispatch on the node's type
ResolveNode_entry ==
    /\ At("resolve_node", "entry")
    /\ LET f == Top
           node == f.node
       IN IF HasKey(node, "$ref")
          THEN Call([f EXCEPT !.pc = "ref_ret"],
                    RefFrame(node.fields["$ref"], f.base_dir, f.defs, f.seen))
          ELSE IF IsDict(node) \/ IsList(node)
               THEN IF Items(node) = <<>> THEN Return(EmptyLike(node))
                    ELSE Call([f EXCEPT !.pc = "item_ret", !.todo = Items(node),
                                        !.acc = EmptyLike(node)],
                              NodeFrame(Child(node, Head(Items(node))), f.base_dir,
                                        f.defs, f.seen))
          ELSE Return(node)

\* lines 225-227 and 231: the siblings of $ref, if any, are resolved next
ResolveNode_ref_ret ==
    /\ At("resolve_node", "ref_ret")
    /\ LET f == Top
           siblings == DictWithout(f.node, "$ref")
       IN IF DOMAIN siblings.fields # {}
          THEN Call([f EXCEPT !.pc = "sib_ret", !.resolved = ret],
                    NodeFrame(siblings, f.base_dir, f.defs, f.seen))
          ELSE Return(ret)

\* lines 228-231: merge the resolved siblings onto a dict target
ResolveNode_sib_ret ==
    /\ At("resolve_node", "sib_ret")
    /\ Return(IF IsDict(Top.resolved) THEN deep_merge(Top.resolved, ret)
              ELSE Top.resolved)

\* lines 235-237 and 240: store the resolved child, go on with the next
ResolveNode_item_ret ==
    /\ At("resolve_node", "item_ret")
    /\ LET f == Top
           acc == WithItem(f.acc, Head(f.todo), ret)
           rest == Tail(f.todo)
       IN IF rest = <<>> THEN Return(acc)
          ELSE Call([f EXCEPT !.todo = rest, !.acc = acc],
                    NodeFrame(Child(f.node, Head(rest)), f.base_dir, f.defs, f.seen))

----------------------------------------------------------------------------
(* _inline_unresolved_defs *)

UnresolvedPrefix == <<"unresolved fragment ref: ", "#", "/", "$defs", "/">>

\* lines 253-258: the node is a pass-1 placeholder whose last "/"-segment
\* names an entry of defs
IsInlinablePlaceholder(node, defs) ==
    /\ IsDict(node)
    /\ DOMAIN node.fields = {"$comment"}
    /\ IsStr(node.fields["$comment"])
    /\ StartsWith(node.fields["$comment"].text, UnresolvedPrefix)
    /\ LET segs == Split(node.fields["$comment"].text, "/")
       IN Join(segs[Len(segs)]) \in DOMAIN defs

PlaceholderDefName(node) ==
    LET segs == Split(node.fields["$comment"].text, "/") IN Join(segs[Len(segs)])

\* lines 251-275: dispatch on the node's type
Inline_entry ==
    /\ At("inline_unresolved_defs", "entry")
    /\ LET f == Top
           node == f.node
       IN IF IsDict(node) /\ DOMAIN node.fields = {"$comment"}
                /\ ~IsStr(node.fields["$comment"])
          THEN Raise("AttributeError")   \* comment.startswith on a non-string
          ELSE IF IsInlinablePlaceholder(node, f.defs)
          THEN Return(deepcopy(f.defs[PlaceholderDefName(node)]))
          ELSE IF HasKey(node, "$ref")
          THEN Call([f EXCEPT !.pc = "ref_ret"],
                    RefFrame(node.fields["$ref"], f.base_dir, f.defs, f.seen))
          ELSE IF IsDict(node) \/ IsList(node)
               THEN IF Items(node) = <<>> THEN Return(EmptyLike(node))
                    ELSE Call([f EXCEPT !.pc = "item_ret", !.todo = Items(node),
                                        !.acc = EmptyLike(node)],
                              InlineFrame(Child(node, Head(Items(node))), f.defs,
                                          f.base_dir, f.seen))
          ELSE Return(node)

\* lines 263-265 and 268
Inline_ref_ret ==
    /\ At("inline_unresolved_defs", "ref_ret")
    /\ LET f == Top
           siblings == DictWithout(f.node, "$ref")
       IN IF DOMAIN siblings.fields # {}
          THEN Call([f EXCEPT !.pc = "sib_ret", !.resolved = ret],
                    InlineFrame(siblings, f.defs, f.base_dir, f.seen))
          ELSE Return(ret)

\* lines 266-268
Inline_sib_ret ==
    /\ At("inline_unresolved_defs", "sib_ret")
    /\ Return(IF IsDict(Top.resolved) THEN deep_merge(Top.resolved, ret)
              ELSE Top.resolved)

\* lines 270-272 and 274
Inline_item_ret ==
    /\ At("inline_unresolved_defs", "item_ret")
    /\ LET f == Top
           acc == WithItem(f.acc, Head(f.todo), ret)
           rest == Tail(f.todo)
       IN IF rest = <<>> THEN Return(acc)
          ELSE Call([f EXCEPT !.todo = rest, !.acc = acc],
                    InlineFrame(Child(f.node, Head(rest)), f.defs, f.base_dir, f.seen))

----------------------------------------------------------------------------
(* _resolve_ref *)

\* lines 284-285: the pointer is exactly /$defs/<name> with <name> in defs
IsLocalDef(ref, defs) ==
    LET segs == Split(LStrip(Tail(ref), "/"), "/")
    IN /\ Len(segs) = 2
       /\ Join(segs[1]) = "$defs"
       /\ Join(segs[2]) \in DOMAIN defs

LocalDefName(ref) == Join(Split(LStrip(Tail(ref), "/"), "/")[2])

\* lines 297-300: file_part and fragment (<<>> when there is none)
FilePart(ref) == IF Contains(ref, "#") THEN SplitOnce(ref, "#")[1] ELSE ref
Fragment(ref) == IF Contains(ref, "#") THEN SplitOnce(ref, "#")[2] ELSE <<>>

\* lines 280-307: classify the reference by prefix
ResolveRef_entry ==
    /\ At("resolve_ref", "entry")
    /\ LET f == Top
           ref == f.ref.text
           file_path == ResolvePath(f.base_dir, FilePart(ref))
       IN IF ~IsStr(f.ref) THEN Raise("AttributeError")   \* ref.startswith
          ELSE IF StartsWith(ref, <<"#", "/">>)
          THEN IF IsLocalDef(ref, f.defs) THEN Return(deepcopy(f.defs[LocalDefName(ref)]))
               ELSE Return(UnresolvedFragmentRef(ref))
          ELSE IF StartsWith(ref, <<"bblocks:">>)
          THEN IF DOMAIN bblock_index # {}
               THEN Call([f EXCEPT !.pc = "bblocks_ret"], BblocksFrame(ref, f.seen))
               ELSE Return(NoIndexAvailable(ref))
          ELSE IF ~PathExists(files, file_path) THEN Return(FileNotFound(file_path))
          ELSE Call([f EXCEPT !.pc = "file_ret", !.file_path = file_path,
                              !.fragment = Fragment(ref)],
                    FileFrame(file_path, f.seen, Fragment(ref) # <<>>))

\* line 293
ResolveRef_bblocks_ret ==
    /\ At("resolve_ref", "bblocks_ret")
    /\ Return(ret)

\* lines 309-315 and 320: apply the fragment to what resolve_file returned
ResolveRef_file_ret ==
    /\ At("resolve_ref", "file_ret")
    /\ LET f == Top
           got == resolve_fragment(ret, f.fragment)
       IN IF f.fragment = <<>> THEN Return(ret)
          ELSE IF got.ok
          THEN Call([f EXCEPT !.pc = "fragment_ret"],
                    NodeFrame(got.val, Parent(f.file_path), NoDefs, f.seen))
          ELSE IF got.err = "KeyError"
          THEN Return(CouldNotResolveFragment(f.fragment, PathStr(f.file_path), got.msg))
          ELSE Raise(got.err)

\* lines 317-320
ResolveRef_fragment_ret ==
    /\ At("resolve_ref", "fragment_ret")
    /\ Return(IF IsDict(ret) THEN DictWithout(ret, "$defs") ELSE ret)

----------------------------------------------------------------------------
(* _resolve_bblocks_ref *)

\* The remainder as it would be were "bblocks:" the only prefix stripped
BblocksRemainderAfterColon(ref) == SubSeq(ref, 2, Len(ref))

\* lines 471-474
BblocksRemainder(ref) ==
    IF StartsWith(ref, <<"bblocks:", "/", "/">>) THEN SubSeq(ref, 4, Len(ref))
    ELSE SubSeq(ref, 2, Len(ref))

\* lines 471-489
Bblocks_entry ==
    /\ At("resolve_bblocks_ref", "entry")
    /\ LET f == Top
           remainder == BblocksRemainder(f.ref)
           identifier == Join(FilePart(remainder))
           fragment == Fragment(remainder)
       IN IF ~StartsWith(f.ref, <<"bblocks:">>) THEN Return(NotABblocksRef(f.ref))
          ELSE IF identifier \notin DOMAIN bblock_index THEN Return(NotInLocalIndex(f.ref))
          ELSE Call([f EXCEPT !.pc = "file_ret", !.schema_path = bblock_index[identifier],
                              !.fragment = fragment],
                    FileFrame(bblock_index[identifier], f.seen, fragment # <<>>))

\* lines 491-496 and 501
Bblocks_file_ret ==
    /\ At("resolve_bblocks_ref", "file_ret")
    /\ LET f == Top
           got == resolve_fragment(ret, f.fragment)
       IN IF f.fragment = <<>> THEN Return(ret)
          ELSE IF got.ok
          THEN Call([f EXCEPT !.pc = "fragment_ret"],
                    NodeFrame(got.val, Parent(f.schema_path), NoDefs, f.seen))
          ELSE IF got.err = "KeyError"
          THEN Return(CouldNotResolveFragment(f.fragment, f.ref, got.msg))
          ELSE Raise(got.err)

\* lines 498-501
Bblocks_fragment_ret ==
    /\ At("resolve_bblocks_ref", "fragment_ret")
    /\ Return(IF IsDict(ret) THEN DictWithout(ret, "$defs") ELSE ret)

----------------------------------------------------------------------------
(* main *)

\* line 581: resolved = resolve_file(schema_path, seen=set(), bblock_index)
Main_resolve ==
    /\ status = "start"
    /\ stack' = <<FileFrame(root_path, {}, FALSE)>>
    /\ status' = "resolving"
    /\ UNCHANGED <<ret, result, exc>>
    /\ Frozen

\* line 581: the top-level call has returned
Main_resolved ==
    /\ status = "resolving"
    /\ stack = <<>>
    /\ status' = "resolved"
    /\ result' = ret
    /\ UNCHANGED <<stack, ret, exc>>
    /\ Frozen

\* lines 584-586: strip metadata keys unless --keep-metadata
Main_strip ==
    /\ status = "resolved"
    /\ status' = "stripped"
    /\ output' = IF ~args.keep_metadata
                 THEN strip_metadata_keys(result,
                                          IF args.strip_keys_given THEN args.strip_keys
                                          ELSE DEFAULT_STRIP_KEYS,
                                          TRUE)
                 ELSE result
    /\ UNCHANGED <<files, bblock_index, root_path, stack, ret, result, exc, args, parked>>

\* lines 589-590: flatten allOf if --flatten-allof
Main_flatten ==
    /\ status = "stripped"
    /\ IF args.flatten_allof /\ FlattenRaises(output)
       THEN /\ status' = "raised"
            /\ exc' = "TypeError"
            /\ UNCHANGED output
       ELSE /\ status' = "done"
            /\ output' = IF args.flatten_allof THEN flatten_allof(output) ELSE output
            /\ UNCHANGED exc
    /\ UNCHANGED <<files, bblock_index, root_path, stack, ret, result, args, parked>>

----------------------------------------------------------------------------
(* Inputs: schema files, reference strings, file systems *)

S(tok) == Str(<<tok>>)
Leaf == Obj("type" :> S("string"))
Ref(r) == Obj("$ref" :> Str(r))
RefWith(r, key, v) == Obj(("$ref" :> Str(r)) @@ (key :> v))

JsonFile(root) == [syntax |-> "json", root |-> root, deforder |-> <<>>]
YamlFile(root) == [syntax |-> "yaml", root |-> root, deforder |-> <<>>]
DefsFile(root, order) == [syntax |-> "json", root |-> root, deforder |-> order]
Malformed == [syntax |-> "malformed", root |-> Null, deforder |-> <<>>]

PA == <<"repo", "a.json">>
PB == <<"repo", "b.yaml">>
PC == <<"repo", "sub", "c.json">>
PL == <<"repo", "l.json">>
PT == <<"repo", "t.json">>
PR == <<"repo", "r.json">>
PD1 == <<"repo", "d1.json">>
PD2 == <<"repo", "d2.json">>
Missing == <<"repo", "nofile.json">>

\* The relative path a file in directory dir writes to name the file at path
\* to; files of the same directory are named through "./".
RelPath(dir, to) ==
    IF Parent(to) = dir THEN <<".", "/", to[Len(to)]>>
    ELSE IF Parent(Parent(to)) = dir THEN <<to[Len(to) - 1], "/", to[Len(to)]>>
    ELSE <<"..", "/", to[Len(to)]>>

\* The building-block identifier of a schema file
BlockId(path) == "blk." \o path[Len(path)]

FullIndex(paths) == [id \in {BlockId(q) : q \in paths} |->
                        CHOOSE q \in paths : BlockId(q) = id]
NoIndex == <<>>

\* The command line: --keep-metadata, --strip-keys (given or not), --flatten-allof
Args(keep_metadata, strip_keys_given, strip_keys, flatten) ==
    [keep_metadata |-> keep_metadata, strip_keys_given |-> strip_keys_given,
     strip_keys |-> strip_keys, flatten_allof |-> flatten]

WorldWith(fs, index, root, a) == [files |-> fs, index |-> index, root |-> root, args |-> a]

World(fs, index, root) ==
    LET \* --keep-metadata, no --flatten-allof: main writes the resolved document
        PlainArgs == Args(TRUE, FALSE, {}, FALSE)
    IN  WorldWith(fs, index, root, PlainArgs)

RefNode(style, dir, to) ==
    CASE style = "plain" -> Ref(RelPath(dir, to))
      [] style = "sibling" -> RefWith(RelPath(dir, to), "description", S("d"))
      [] style = "comment" -> RefWith(RelPath(dir, to), "$comment", S("note"))
      [] style = "fragment" -> Ref(RelPath(dir, to) \o <<"#", "/", "type">>)
      [] style = "bblocks" -> Ref(<<"bblocks:", "/", "/", BlockId(to)>>)
      [] style = "bblocks_fragment" ->
            Ref(<<"bblocks:", BlockId(to), "#", "/", "type">>)

\* A property of a graph file: a plain value, or a reference to a file
Prop(style, dir, to) == IF to = <<>> THEN Leaf ELSE RefNode(style, dir, to)

GraphRoot(style, dir, to1, to2) ==
    Obj(("type" :> S("object")) @@ ("p" :> Prop(style, dir, to1))
            @@ ("q" :> Arr(<<Prop(style, dir, to2)>>)))

\* Family 1: three files referencing one another in every shape (self
\* cycles, cycles of length two and three, diamonds, dangling references),
\* the third file with an object or an array at its root.
GraphWorlds ==
    LET \* How a file names the file it references
        RefStyles == {"plain", "sibling", "comment", "fragment", "bblocks", "bblocks_fragment"}
    IN  { World((PA :> JsonFile(GraphRoot(st, Parent(PA), a1, a2)))
                    @@ (PB :> YamlFile(GraphRoot(st, Parent(PB), b1, <<>>)))
                    @@ (PC :> JsonFile(IF carr THEN Arr(<<Prop(st, Parent(PC), c1)>>)
                                       ELSE GraphRoot(st, Parent(PC), c1, <<>>))),
                IF st \in {"bblocks", "bblocks_fragment"} THEN FullIndex({PA, PB, PC})
                ELSE NoIndex,
                PA) :
            st \in RefStyles, a1 \in {PA, PB}, a2 \in {<<>>, PB, PC},
            b1 \in {<<>>, PA, PC, Missing}, c1 \in {<<>>, PA, PC}, carr \in BOOLEAN }

\* Family 2: one $defs table, declared in two orders by two files d1 and d2
\* that are otherwise the same, and a root file inlining both.
LocalRef(name) == <<"#", "/", "$defs", "/", name>>

DefsWorlds ==
    LET DefBody(style, name) ==
            CASE style = "leaf" -> Leaf
              [] style = "plain" -> Ref(LocalRef(name))
              [] style = "sibling" -> RefWith(LocalRef(name), "description", S("d"))
              [] style = "nested" -> Obj("properties" :> Obj("n" :> Ref(LocalRef(name))))
              [] style = "long" -> Ref(<<"#", "/", "$defs", "/", "Z", "/", "properties", "/", name>>)
        DefsRoot(bx, by, bz) ==
            Obj(("$defs" :> Obj(("X" :> bx) @@ ("Y" :> by) @@ ("Z" :> bz)))
                    @@ ("p" :> Ref(LocalRef("X")))
                    @@ ("q" :> RefWith(LocalRef("Y"), "description", S("override"))))
        DefOrders == {<<"X", "Y", "Z">>, <<"X", "Z", "Y">>, <<"Y", "X", "Z">>,
                      <<"Y", "Z", "X">>, <<"Z", "X", "Y">>, <<"Z", "Y", "X">>}
        XBodies == {DefBody("leaf", "X"), DefBody("plain", "Y"), DefBody("sibling", "Y"),
                    DefBody("nested", "Y"), DefBody("plain", "Nope"), DefBody("long", "Y"),
                    Ref(RelPath(Parent(PD1), PL))}
        YBodies == {DefBody("leaf", "Y"), DefBody("plain", "Z"), DefBody("plain", "X"),
                    DefBody("nested", "X")}
        ZBodies == {DefBody("leaf", "Z"), DefBody("plain", "X")}
        \* An array file a definition may reference: resolve_file returns it as it
        \* is, so its references are first met by pass 2.
        DefsList == Arr(<<Ref(RelPath(Parent(PL), PT)),
                          RefWith(RelPath(Parent(PL), PT), "description", S("d"))>>)
    IN  { World((PR :> JsonFile(Obj(("u" :> Ref(RelPath(Parent(PR), PD1)))
                                       @@ ("v" :> Ref(RelPath(Parent(PR), PD2))))))
                    @@ (PD1 :> DefsFile(DefsRoot(bx, by, bz), <<"X", "Y", "Z">>))
                    @@ (PD2 :> DefsFile(DefsRoot(bx, by, bz), order))
                    @@ (PL :> JsonFile(DefsList)) @@ (PT :> JsonFile(Leaf)),
                NoIndex, PR) :
            bx \in XBodies, by \in YBodies, bz \in ZBodies,
            order \in DefOrders \ {<<"X", "Y", "Z">>} }

\* Family 3: a reference with a fragment into an object file and into an
\* array file, the pointer succeeding or failing at each kind of segment.
FragmentWorlds ==
    LET TargetRoot ==
            Obj(("$defs" :> Obj("X" :> Leaf)) @@ ("items" :> Arr(<<Leaf, S("s")>>))
                    @@ ("type" :> S("object")))
        ListRoot == Arr(<<Leaf,
                          Ref(<<"l.json", "#", "/", "0">>),
                          Ref(<<".", "/", "l.json", "#", "/", "2">>),
                          Ref(<<"a.json">>)>>)
        TargetFragments ==
            { <<"#", "/", "$defs", "/", "X">>, <<"#", "/", "$defs">>, <<"#", "/", "nokey">>,
              <<"#", "/", "type", "/", "x">>, <<"#", "/", "items", "/", "0">>,
              <<"#", "/", "items", "/", "1">>, <<"#", "/", "items", "/", "5">>,
              <<"#", "/", "items", "/", "x">>, <<"#", "/", "items", "/", "-1">>,
              <<"#", "/", "items", "/", "0", "/", "type">>, <<"#">>, <<>> }
        ListFragments ==
            { <<"#", "/", "0">>, <<"#", "/", "1">>, <<"#", "/", "2">>, <<"#", "/", "3">>,
              <<"#", "/", "5">>, <<"#", "/", "x">>, <<>> }
    IN  { World((PA :> JsonFile(Obj(("p" :> Ref(t[2] \o t[3]))
                                       @@ ("q" :> Ref(RelPath(Parent(PA), PT))))))
                    @@ (PT :> DefsFile(TargetRoot, <<"X">>))
                    @@ (PL :> JsonFile(ListRoot)),
                IF t[1] THEN FullIndex({PT, PL}) ELSE NoIndex,
                PA) :
            t \in ({FALSE} \X {RelPath(Parent(PA), PT)} \X TargetFragments)
                  \cup ({FALSE} \X {RelPath(Parent(PA), PL)} \X ListFragments)
                  \cup ({TRUE} \X {<<"bblocks:", "/", "/", BlockId(PT)>>} \X TargetFragments)
                  \cup ({TRUE} \X {<<"bblocks:", BlockId(PL)>>} \X ListFragments) }

\* Family 4: documents without any $ref, in both syntaxes
PlainWorlds ==
    LET PlainMembers ==
            ("type" :> S("object"))
                @@ ("properties" :> Obj("x" :> Leaf))
                @@ ("$defs" :> Obj(("X" :> Leaf) @@ ("Y" :> Obj("$defs" :> Obj("in" :> Leaf)))))
                @@ ("items" :> Arr(<<Leaf, Null, Obj("$defs" :> Leaf)>>))
        PlainDocs ==
            { Obj([key \in K |-> PlainMembers[key]]) : K \in SUBSET (DOMAIN PlainMembers) }
                \cup {Arr(<<Leaf>>), Arr(<<>>), S("x"), Str(<<>>), Null,
                      Obj("$defs" :> Obj("X" :> Obj("$comment" :> Null)))}
    IN  { World(path :> [syntax |-> IF path = PB THEN "yaml" ELSE "json", root |-> doc,
                         deforder |-> IF HasKey(doc, "$defs")
                                      THEN KeySeq(DOMAIN doc.fields["$defs"].fields)
                                      ELSE <<>>],
                NoIndex, path) :
            doc \in PlainDocs, path \in {PA, PB} }

\* Family 5: files that cannot be parsed, references that name no file
ErrorWorlds ==
    { World((PA :> JsonFile(Obj(("p" :> Ref(r)) @@ ("q" :> Leaf))))
                @@ (PB :> Malformed) @@ (PC :> JsonFile(Leaf)),
            NoIndex, root) :
        r \in { RelPath(Parent(PA), PB), <<"#">>, <<"#", "anchor">>, <<>>, <<"sub">>,
                <<"sub", "/", "c.json">> },
        root \in {PA, PB} }

\* Family 6: documents without references that carry metadata keys, allOf,
\* oneOf and anyOf, resolved under every command line.
Num == Obj("type" :> S("number"))

PostArgs ==
    { Args(TRUE, FALSE, {}, f) : f \in BOOLEAN }
        \cup { Args(FALSE, FALSE, {}, f) : f \in BOOLEAN }
        \cup { Args(FALSE, TRUE, {"title", "x-vendor-ext"}, f) : f \in BOOLEAN }
        \cup { Args(FALSE, TRUE, {"$schema"}, f) : f \in BOOLEAN }

PostWorlds ==
    LET AllOfVariants ==
            { Arr(<<Obj(("type" :> S("object")) @@ ("properties" :> Obj("a" :> Leaf))),
                    Obj("properties" :> Obj("b" :> Num))>>),
              Arr(<<Obj("oneOf" :> Arr(<<Num>>)), Obj("anyOf" :> Arr(<<Num>>))>>),
              Arr(<<Obj(("allOf" :> Arr(<<Obj("properties" :> Obj("c" :> Leaf))>>))
                            @@ ("items" :> Arr(<<Obj("allOf" :> Arr(<<Num>>))>>))),
                    S("text"),
                    Obj("properties" :> Obj("own" :> Obj("minLength" :> S("1"))))>>),
              Arr(<<Obj(("title" :> S("e1")) @@ ("x" :> Obj("k" :> S("v"))) @@ ("y" :> S("s"))
                            @@ ("required" :> Arr(<<S("a")>>))),
                    S("text"),
                    Obj(("title" :> S("e2")) @@ ("x" :> S("s")) @@ ("y" :> Obj("k" :> S("v")))
                            @@ ("required" :> Arr(<<S("b")>>))),
                    Arr(<<Obj("title" :> S("e3"))>>),
                    Null>>),
              Arr(<<Obj(("$schema" :> S("entry")) @@ ("type" :> S("object")))>>),
              Obj("type" :> S("object")),
              Null }
        PostMembers ==
            ("$schema" :> S("dialect"))
                @@ ("$id" :> S("id"))
                @@ ("x-jsonld-context" :> Obj("$id" :> S("ctx")))
                @@ ("x-vendor-ext" :> Obj("k" :> S("v")))
                @@ ("title" :> S("t"))
                @@ ("properties" :>
                        Obj(("own" :> Obj(("type" :> S("string")) @@ ("$schema" :> S("nested"))
                                              @@ ("x-jsonld-id" :> S("j"))))
                                @@ ("$id" :> Leaf)))
                @@ ("oneOf" :> Arr(<<Obj(("title" :> S("alt")) @@ ("allOf" :> Arr(<<Leaf>>)))>>))
                @@ ("anyOf" :> Arr(<<Leaf>>))
                @@ ("items" :>
                        Arr(<<Obj(("$schema" :> S("nested")) @@ ("$id" :> S("i"))
                                      @@ ("allOf" :>
                                              Arr(<<Obj("properties" :> Obj("a" :> Leaf)),
                                                    Obj(("title" :> S("n"))
                                                            @@ ("properties" :> Obj("b" :> Num)))>>)))>>))
        \* The members come in groups: all of a group or none.
        PostGroups ==
            { {"$schema"}, {"$id", "x-jsonld-context", "x-vendor-ext", "title"},
              {"properties"}, {"oneOf", "anyOf"}, {"items"} }
        PostDocs ==
            { Obj([k \in UNION G |-> PostMembers[k]]) : G \in SUBSET PostGroups }
                \cup { Obj([k \in (UNION G) \cup {"allOf"} |->
                                IF k = "allOf" THEN v ELSE PostMembers[k]]) :
                            G \in SUBSET PostGroups, v \in AllOfVariants }
    IN  { WorldWith(PA :> JsonFile(doc), NoIndex, PA, a) : doc \in PostDocs, a \in PostArgs }

\* Family 7: fragments into a document that has the empty string as a key
EmptyKeyWorlds ==
    LET EmptyKeyRoot ==
            Obj(("" :> Obj("a" :> Leaf)) @@ ("a" :> Num) @@ ("$defs" :> Obj("Foo" :> Leaf)))
        EmptyKeyFragments ==
            { <<"#", "/", "$defs", "/", "Foo">>, <<"#", "/", "a">>, <<"#", "/">>,
              <<"#", "/", "/", "a">>, <<"#", "/", "/">> }
    IN  { World((PA :> JsonFile(Obj("p" :> Ref(t[2] \o t[3]))))
                    @@ (PT :> DefsFile(EmptyKeyRoot, <<"Foo">>)),
                IF t[1] THEN FullIndex({PT}) ELSE NoIndex,
                PA) :
            t \in ({FALSE} \X {RelPath(Parent(PA), PT)} \X EmptyKeyFragments)
                  \cup ({TRUE} \X {<<"bblocks:", "/", "/", BlockId(PT)>>} \X EmptyKeyFragments) }

\* Family 8: a reference with sibling keys; the target is an object, a
\* string, an array or a missing file, and the siblings overlap the target
\* inside and outside of "properties".
MergeWorlds ==
    LET MergeBase ==
            Obj(("type" :> S("object"))
                    @@ ("description" :> S("base"))
                    @@ ("properties" :>
                            Obj(("x" :> Obj(("type" :> S("array")) @@ ("items" :> Leaf)))
                                    @@ ("y" :> Obj(("type" :> S("string"))
                                                       @@ ("extra" :> Obj("k" :> Leaf))))
                                    @@ ("properties" :>
                                            Obj(("items" :> Obj(("type" :> S("string"))
                                                                    @@ ("minLength" :> S("1"))))
                                                    @@ ("title" :> S("named properties"))))))
                    @@ ("meta" :> Obj("k" :> Obj(("type" :> S("string")) @@ ("unit" :> S("m"))))))
        MergeOverlays ==
            { Obj("description" :> S("override")),
              Obj("properties" :> Obj("x" :> Obj("oneOf" :> Arr(<<Leaf>>)))),
              Obj("properties" :> Obj("y" :> Obj("minLength" :> S("1")))),
              Obj("properties" :> Obj("y" :> Obj("extra" :> Obj("k" :> Num)))),
              Obj("properties" :> Obj("y" :> Ref(RelPath(Parent(PA), PC)))),
              Obj("properties" :> Obj(("x" :> S("text")) @@ ("z" :> Num))),
              Obj("properties" :> Obj("properties" :> Obj("items" :> Num))),
              Obj("meta" :> Obj("k" :> Num)),
              Obj(("type" :> S("over")) @@ ("meta" :> S("none"))
                      @@ ("properties" :> Obj(("x" :> Num)
                                                  @@ ("y" :> Obj("minLength" :> S("2")))))) }
        MergeTargets ==
            { RelPath(Parent(PA), PT),
              RelPath(Parent(PA), PT) \o <<"#", "/", "description">>,
              RelPath(Parent(PA), PT) \o <<"#", "/", "properties">>,
              RelPath(Parent(PA), PL),
              RelPath(Parent(PA), Missing) }
    IN  { World((PA :> JsonFile(Obj("p" :> Obj(("$ref" :> Str(t)) @@ o.fields))))
                    @@ (PT :> JsonFile(MergeBase))
                    @@ (PL :> JsonFile(Arr(<<Leaf>>)))
                    @@ (PC :> JsonFile(Leaf)),
                NoIndex, PA) :
            t \in MergeTargets, o \in MergeOverlays }

\* Family 9: a document that inlines another one, both carrying metadata
\* keys, resolved under every command line.
InlinedWorlds ==
    LET InlinedRoot ==
            Obj(("$schema" :> S("dialect")) @@ ("$id" :> S("t")) @@ ("type" :> S("object"))
                    @@ ("x-jsonld-prefixes" :> Obj("k" :> S("v")))
                    @@ ("allOf" :> Arr(<<Obj("properties" :> Obj("a" :> Leaf))>>)))
    IN  { WorldWith((PA :> JsonFile(Obj(("$schema" :> S("dialect")) @@ ("$id" :> S("a"))
                                            @@ ("p" :> Ref(RelPath(Parent(PA), PT)))
                                            @@ ("q" :> Arr(<<Ref(RelPath(Parent(PA), PT))>>)))))
                        @@ (PT :> JsonFile(InlinedRoot)),
                    NoIndex, PA, a) :
            a \in PostArgs }

\* Family 10: the same target and fragment named once by a bblocks
\* identifier (p) and once by a relative path (q)
ParityWorlds ==
    LET ParityTarget ==
            Obj(("$defs" :> Obj("Thing" :> Leaf)) @@ ("type" :> S("object"))
                    @@ ("back" :> Ref(RelPath(Parent(PT), PA)))
                    @@ ("items" :> Arr(<<Leaf, Ref(<<"#", "/", "$defs", "/", "Thing">>)>>)))
        ParityFragments ==
            { <<"#", "/", "$defs", "/", "Thing">>, <<"#", "/", "type">>, <<"#", "/", "back">>,
              <<"#", "/", "items">>, <<"#", "/", "items", "/", "1">>, <<"#", "/", "nokey">>,
              <<"#", "/", "type", "/", "x">>, <<"#">>, <<>> }
    IN  { World((PA :> JsonFile(Obj(("p" :> Ref(prefix \o <<BlockId(PT)>> \o fragment))
                                       @@ ("q" :> Ref(RelPath(Parent(PA), PT) \o fragment)))))
                    @@ (PT :> DefsFile(ParityTarget, <<"Thing">>)),
                FullIndex({PA, PT}), PA) :
            prefix \in {<<"bblocks:", "/", "/">>, <<"bblocks:">>}, fragment \in ParityFragments }

\* Family 11: two documents that differ in property p only: in d1.json p is
\* a reference that cannot be followed, in d2.json it is a plain schema.
SoftWorlds ==
    LET SoftTarget == Obj(("type" :> S("object")) @@ ("$defs" :> Obj("X" :> Leaf)))
        FailingRefs ==
            { RelPath(Parent(PD1), Missing),
              RelPath(Parent(PD1), Missing) \o <<"#", "/", "type">>,
              RelPath(Parent(PD1), PT) \o <<"#", "/", "nokey">>,
              RelPath(Parent(PD1), PT) \o <<"#", "/", "$defs", "/", "Nope">>,
              <<"bblocks:", "/", "/", "blk.nope">>,
              <<"bblocks:", "blk.nope", "#", "/", "type">>,
              <<"bblocks:", "/", "/", BlockId(PT), "#", "/", "nokey">> }
        FailingNodes ==
            { Ref(r) : r \in FailingRefs }
                \cup { RefWith(r, "description", S("d")) : r \in FailingRefs }
                \cup { RefWith(r, "$comment", S("note")) : r \in FailingRefs }
        SoftDoc(p) ==
            Obj(("type" :> S("object")) @@ ("p" :> p)
                    @@ ("q" :> Ref(RelPath(Parent(PD1), PT)))
                    @@ ("items" :> Arr(<<Ref(RelPath(Parent(PD1), PT) \o <<"#", "/", "type">>),
                                         Ref(<<"#", "/", "$defs", "/", "X">>)>>))
                    @@ ("$defs" :> Obj("X" :> Leaf)))
    IN  { World((PR :> JsonFile(Obj(("u" :> Ref(RelPath(Parent(PR), PD1)))
                                       @@ ("v" :> Ref(RelPath(Parent(PR), PD2))))))
                    @@ (PD1 :> DefsFile(SoftDoc(node), <<"X">>))
                    @@ (PD2 :> DefsFile(SoftDoc(Leaf), <<"X">>))
                    @@ (PT :> DefsFile(SoftTarget, <<"X">>)),
                index, PR) :
            node \in FailingNodes, index \in {NoIndex, FullIndex({PT})} }

\* Family 12: an unparsable file met through each kind of reference, after
\* other nodes have been resolved
HardWorlds ==
    LET HardRefs ==
            { Ref(RelPath(Parent(PA), PB)),
              Ref(RelPath(Parent(PA), PB) \o <<"#", "/", "type">>),
              RefWith(RelPath(Parent(PA), PB), "description", S("d")),
              Ref(<<"bblocks:", "/", "/", BlockId(PB)>>),
              Ref(RelPath(Parent(PA), PC)),
              Ref(<<"#", "/", "$defs", "/", "X">>) }
    IN  { World((PA :> DefsFile(Obj(("a" :> Ref(RelPath(Parent(PA), PT))) @@ ("p" :> node)
                                        @@ ("$defs" :> Obj("X" :> Ref(RelPath(Parent(PA), bad))))),
                                <<"X">>))
                    @@ (PB :> Malformed)
                    @@ (PC :> JsonFile(Arr(<<>>)))
                    @@ (PL :> JsonFile(Obj("n" :> Ref(RelPath(Parent(PL), PB)))))
                    @@ (PT :> JsonFile(Leaf)),
                FullIndex({PB, PT}), PA) :
            node \in HardRefs \cup {Ref(RelPath(Parent(PA), PL))}, bad \in {PB, PT} }

\* Family 13: reference strings of every shape: URLs, a second "#", local
\* pointers, bblocks prefixes that are complete, partial or misspelt
ClassWorlds ==
    LET ClassRefs ==
            { <<"http:", "/", "/", "example.org", "/", "t.json">>,
              <<"https:", "/", "/", "example.org", "/", "t.json", "#", "/", "type">>,
              <<"file:", "/", "/", "/", "repo", "/", "t.json">>,
              <<".", "/", "t.json", "#", "/", "type", "#", "/", "x">>,
              <<"t.json">>,
              <<"t.json", "#", "/", "type">>,
              <<"bblocks">>,
              <<"BBLOCKS:", "/", "/", "blk.t.json">>,
              <<"bblocks:", "/", "/", "blk.t.json">>,
              <<"bblocks:", "blk.t.json">>,
              <<"bblocks:", "/", "blk.t.json">>,
              <<"bblocks:">>,
              <<"bblocks:", "/", "/", "blk.t.json", "#", "/", "type", "#", "x">>,
              <<"bblocks:", "blk.t.json", "#", "/", "type">>,
              <<"#", "/", "$defs", "/", "X">>,
              <<"#", "/", "$defs", "/", "X", "#", "/", "type">>,
              <<"#", "/">>,
              <<"#", "/", "bblocks:", "/", "/", "blk.t.json">> }
    IN  { World((PA :> DefsFile(Obj(("p" :> Ref(r)) @@ ("$defs" :> Obj("X" :> Num))),
                                <<"X">>))
                    @@ (PT :> JsonFile(Leaf)),
                index, PA) :
            r \in ClassRefs, index \in {NoIndex, FullIndex({PT})} }

\* Family 14: definition X of d1.json reached by the local reference of
\* d1.json's property p and, from a.json, by a reference with a fragment
AccessWorlds ==
    { World((PA :> JsonFile(Obj(("u" :> Ref(RelPath(Parent(PA), PD1) \o LocalRef("X")))
                                   @@ ("v" :> Ref(RelPath(Parent(PA), PD1))))))
                @@ (PD1 :> DefsFile(Obj(("$defs" :> Obj(("X" :> bx) @@ ("Y" :> by) @@ ("Z" :> Leaf)))
                                            @@ ("p" :> Ref(LocalRef("X")))),
                                    order))
                @@ (PT :> JsonFile(Leaf)),
            NoIndex, PA) :
        bx \in {Leaf, Ref(LocalRef("Y")), RefWith(LocalRef("Y"), "description", S("d")),
                Ref(RelPath(Parent(PD1), PT))},
        by \in {Leaf, Ref(LocalRef("Z"))},
        order \in {<<"X", "Y", "Z">>, <<"Z", "Y", "X">>} }

Worlds ==
    GraphWorlds \cup DefsWorlds \cup FragmentWorlds \cup PlainWorlds \cup ErrorWorlds
        \cup PostWorlds \cup EmptyKeyWorlds \cup MergeWorlds \cup InlinedWorlds
        \cup ParityWorlds \cup SoftWorlds \cup HardWorlds \cup ClassWorlds
        \cup AccessWorlds

----------------------------------------------------------------------------
(* Specification *)

Init ==
    /\ \E w \in Worlds :
        /\ files = w.files
        /\ bblock_index = w.index
        /\ root_path = w.root
        /\ args = w.args
    /\ output = Null
    /\ stack = <<>>
    /\ ret = Null
    /\ status = "start"
    /\ result = Null
    /\ exc = ""
    /\ parked = <<>>

Next ==
    \/ Main_resolve
    \/ Main_resolved
    \/ Main_strip
    \/ Main_flatten
    \/ ResolveFile_entry
    \/ ResolveFile_pass1
    \/ ResolveFile_pass1_ret
    \/ ResolveFile_pass2
    \/ ResolveFile_pass2_ret
    \/ ResolveFile_body
    \/ ResolveFile_return
    \/ ResolveNode_entry
    \/ ResolveNode_ref_ret
    \/ ResolveNode_sib_ret
    \/ ResolveNode_item_ret
    \/ Inline_entry
    \/ Inline_ref_ret
    \/ Inline_sib_ret
    \/ Inline_item_ret
    \/ ResolveRef_entry
    \/ ResolveRef_bblocks_ret
    \/ ResolveRef_file_ret
    \/ ResolveRef_fragment_ret
    \/ Bblocks_entry
    \/ Bblocks_file_ret
    \/ Bblocks_fragment_ret

Spec == Init /\ [][Next]_vars

----------------------------------------------------------------------------
(* What the properties speak of *)

\* The $ref strings of a document, at any depth
RECURSIVE RefsIn(_)
RefsIn(node) ==
    IF IsDict(node)
    THEN (IF "$ref" \in DOMAIN node.fields /\ IsStr(node.fields["$ref"])
          THEN {node.fields["$ref"].text} ELSE {})
         \cup UNION {RefsIn(node.fields[k]) : k \in DOMAIN node.fields}
    ELSE IF IsList(node) THEN UNION {RefsIn(node.items[i]) : i \in 1..Len(node.items)}
    ELSE {}

\* Some object of the document, at any depth, has a $ref key.
RECURSIVE HasRefKey(_)
HasRefKey(node) ==
    IF IsDict(node)
    THEN "$ref" \in DOMAIN node.fields
         \/ \E k \in DOMAIN node.fields : HasRefKey(node.fields[k])
    ELSE IF IsList(node) THEN \E i \in 1..Len(node.items) : HasRefKey(node.items[i])
    ELSE FALSE

\* The $comment strings of a document, at any depth
RECURSIVE CommentsIn(_)
CommentsIn(node) ==
    IF IsDict(node)
    THEN (IF "$comment" \in DOMAIN node.fields /\ IsStr(node.fields["$comment"])
          THEN {node.fields["$comment"].text} ELSE {})
         \cup UNION {CommentsIn(node.fields[k]) : k \in DOMAIN node.fields}
    ELSE IF IsList(node) THEN UNION {CommentsIn(node.items[i]) : i \in 1..Len(node.items)}
    ELSE {}

HasCycleMarker(node) ==
    \E t \in CommentsIn(node) : StartsWith(t, <<"circular ref to ">>)

\* The files the file at path references
FileTargets(path) ==
    LET \* The file a reference of a file in directory dir names (<<>> for a local
        \* reference and for a block the index does not know)
        RefTargetPath(dir, ref) ==
            IF StartsWith(ref, <<"#", "/">>) THEN <<>>
            ELSE IF StartsWith(ref, <<"bblocks:">>)
            THEN LET id == Join(FilePart(BblocksRemainder(ref)))
                 IN IF id \in DOMAIN bblock_index THEN bblock_index[id] ELSE <<>>
            ELSE ResolvePath(dir, FilePart(ref))
    IN  {RefTargetPath(Parent(path), r) : r \in RefsIn(files[path].root)} \ {<<>>}

RECURSIVE ReachedFrom(_, _)
ReachedFrom(paths, n) ==
    IF n = 0 THEN paths
    ELSE ReachedFrom(paths \cup UNION {FileTargets(q) : q \in paths \cap DOMAIN files},
                     n - 1)

\* No file references itself, directly or through other files.
AcyclicFiles ==
    \A q \in DOMAIN files :
        q \notin ReachedFrom(FileTargets(q), Cardinality(DOMAIN files))

\* The resolve_file calls of the stack that are past their cycle check
FileCalls == SelectSeq(stack, LAMBDA f : f.fn = "resolve_file" /\ f.pc # "entry")

\* The files being resolved by the calls below position i of the stack
ChainBelow(i) ==
    {stack[j].path : j \in {k \in 1..(i - 1) : stack[k].fn = "resolve_file"}}

\* A _resolve_ref or _resolve_bblocks_ref call whose resolve_file call has
\* returned, and the file that call was for
AtFileRef ==
    /\ Running
    /\ Top.fn \in {"resolve_ref", "resolve_bblocks_ref"}
    /\ Top.pc \in {"file_ret", "fragment_ret"}

RefTarget(f) == IF f.fn = "resolve_ref" THEN f.file_path ELSE f.schema_path

----------------------------------------------------------------------------
(* Cycle guard *)

\* C1: a top-level resolve_file call started with an empty in-progress set
\* terminates: the in-progress sets of nested resolve_file calls strictly
\* grow, no more resolve_file calls are nested than there are files, and the
\* recursion never exhausts the interpreter's stack.
C1_Terminates ==
    /\ Len(FileCalls) <= Cardinality(DOMAIN files)
    /\ \A i \in 1..(Len(FileCalls) - 1) :
            /\ FileCalls[i].seen \subseteq FileCalls[i + 1].seen
            /\ FileCalls[i].seen # FileCalls[i + 1].seen
    /\ exc # "RecursionError"

\* The document the resolver should produce when every reference is a
\* fragment-less reference to a file: the target inlined, a cycle marker where
\* the target is on the path of files that led here, a file-not-found
\* placeholder where the target does not exist.
RECURSIVE Expand(_, _, _)
Expand(node, dir, chain) ==
    IF HasKey(node, "$ref")
    THEN LET target == ResolvePath(dir, node.fields["$ref"].text)
         IN IF target \in chain THEN CircularRef(target)
            ELSE IF target \notin DOMAIN files THEN FileNotFound(target)
            ELSE Expand(files[target].root, Parent(target), chain \cup {target})
    ELSE IF IsDict(node)
    THEN Obj([k \in DOMAIN node.fields |-> Expand(node.fields[k], dir, chain)])
    ELSE IF IsList(node)
    THEN Arr([i \in 1..Len(node.items) |-> Expand(node.items[i], dir, chain)])
    ELSE node

\* Every reference of every file is {"$ref": "<relative path>"} and nothing
\* else, and every file loads as the document it holds, without $defs.
RECURSIVE OnlyPlainRefs(_)
OnlyPlainRefs(node) ==
    IF IsDict(node)
    THEN IF "$ref" \in DOMAIN node.fields
         THEN /\ DOMAIN node.fields = {"$ref"}
              /\ IsStr(node.fields["$ref"])
              /\ node.fields["$ref"].text # <<>>
              /\ ~Contains(node.fields["$ref"].text, "#")
              /\ ~StartsWith(node.fields["$ref"].text, <<"bblocks:">>)
         ELSE \A k \in DOMAIN node.fields : OnlyPlainRefs(node.fields[k])
    ELSE IF IsList(node) THEN \A i \in 1..Len(node.items) : OnlyPlainRefs(node.items[i])
    ELSE TRUE

\* C2: when fragment-less file references close cycles, the output has a
\* cycle marker exactly at each reference whose target is on the active
\* resolution path, and every other node is resolved normally.
C2_MarkerWhereCycleCloses ==
    LET PlainRefWorld ==
            \A q \in DOMAIN files :
                /\ load_schema_file(files, q).ok
                /\ load_schema_file(files, q).val = files[q].root
                /\ ~HasKey(files[q].root, "$defs")
                /\ OnlyPlainRefs(files[q].root)
                /\ \A r \in RefsIn(files[q].root) :
                        ~IsDir(files, ResolvePath(Parent(q), r))
    IN  (status = "resolved" /\ PlainRefWorld /\ HasRefKey(files[root_path].root))
            => result = Expand(files[root_path].root, Parent(root_path), {root_path})

\* C3: a file or named-block reference, with or without a fragment, whose
\* target is already in the in-progress set produces the cycle marker naming
\* that target.
C3_CycleMarkerBeforeFragment ==
    [][(AtFileRef /\ RefTarget(Top) \in Top.seen /\ Len(stack') < Len(stack))
            => ret' = CircularRef(RefTarget(Top))]_vars

\* C4: at every call the in-progress set is exactly the set of files on the
\* active recursion chain, a cycle marker is produced only for a file on that
\* chain, and where no file references itself (a diamond included) the
\* output holds no cycle marker.
C4_InProgressIsChain ==
    /\ \A i \in 1..Len(stack) :
            stack[i].seen = ChainBelow(i)
                \cup (IF stack[i].fn = "resolve_file" /\ stack[i].pc # "entry"
                      THEN {stack[i].path} ELSE {})
    /\ (At("resolve_file", "entry") /\ Top.path \in Top.seen)
            => Top.path \in ChainBelow(Len(stack))
    /\ (status = "resolved" /\ AcyclicFiles) => ~HasCycleMarker(result)

\* A diamond has been resolved: the root references b twice, b references
\* nothing back, and both references hold b's content.
C4_DiamondResolved ==
    /\ status = "resolved"
    /\ root_path = PA
    /\ files[PA].root = GraphRoot("plain", Parent(PA), PB, PB)
    /\ AcyclicFiles
    /\ result.fields["p"] = result.fields["q"].items[1]
    /\ HasKey(result.fields["p"], "type")
    /\ ~HasCycleMarker(result)

----------------------------------------------------------------------------
(* Two-pass resolution of $defs *)

\* The definitions that the placeholders of a document name
PlaceholderNames(node) ==
    {t[Len(t)] : t \in {u \in CommentsIn(node) :
                            /\ StartsWith(u, UnresolvedPrefix)
                            /\ Len(u) = Len(UnresolvedPrefix) + 1}}

\* C5: when definitions X and Y of a file reference each other, neither the
\* definitions table after pass 2 nor the resolved body of that file holds an
\* unresolved-local-reference placeholder for X or for Y.
C5_MutualDefsInlined ==
    LET \* Definitions x and y of the $defs object raw each hold a local reference to
        \* the other.
        Mutual(raw, x, y) ==
            /\ x # y
            /\ LocalRef(y) \in RefsIn(raw.fields[x])
            /\ LocalRef(x) \in RefsIn(raw.fields[y])
    IN  (At("resolve_file", "body_ret") /\ HasKey(Top.schema, "$defs"))
            => \A x, y \in DOMAIN Top.defs :
                    Mutual(Top.schema.fields["$defs"], x, y)
                        => /\ x \notin PlaceholderNames(ret)
                           /\ \A n \in DOMAIN Top.defs : x \notin PlaceholderNames(Top.defs[n])

\* C6: after pass 2 every unresolved-local-reference placeholder left in a
\* definition names a definition the file does not have.
C6_PlaceholdersNameMissingDefs ==
    At("resolve_file", "body")
        => \A n \in DOMAIN Top.defs :
                PlaceholderNames(Top.defs[n]) \cap DOMAIN Top.defs = {}

\* C7: two files holding the same definitions declared in different orders
\* resolve to the same document.
C7_DeclarationOrderIrrelevant ==
    (/\ status = "resolved"
     /\ root_path = PR
     /\ files[PD1].root = files[PD2].root
     /\ files[PD1].deforder # files[PD2].deforder)
        => result.fields["u"] = result.fields["v"]

----------------------------------------------------------------------------
(* The resolved document *)

\* C8: no object of the document a top-level resolve_file call returns, at
\* any depth, has a $ref key.
C8_TotalResolution == status = "resolved" => ~HasRefKey(result)

\* Every $comment of the document is a string.
RECURSIVE CommentsAreStrings(_)
CommentsAreStrings(node) ==
    IF IsDict(node)
    THEN /\ "$comment" \in DOMAIN node.fields => IsStr(node.fields["$comment"])
         /\ \A k \in DOMAIN node.fields : CommentsAreStrings(node.fields[k])
    ELSE IF IsList(node)
    THEN \A i \in 1..Len(node.items) : CommentsAreStrings(node.items[i])
    ELSE TRUE

\* The root file loads, and the document it holds has no $ref key.
RefFreeInput ==
    /\ load_schema_file(files, root_path).ok
    /\ ~HasRefKey(files[root_path].root)

----------------------------------------------------------------------------
(* Fragment pointers *)

\* The pointer parts cannot be followed through document current: a key the
\* object does not have, an index the array does not have, an array segment
\* that is not a non-negative integer, or a segment applied to a scalar.
RECURSIVE PointerFails(_, _)
PointerFails(current, parts) ==
    LET \* The array indices a pointer segment may spell
        IndexLiterals == {"0", "1", "2", "3", "5"}
    IN  IF parts = <<>> THEN FALSE
        ELSE LET part == Head(parts)
             IN IF IsDict(current)
                THEN part \notin DOMAIN current.fields
                     \/ PointerFails(current.fields[part], Tail(parts))
                ELSE IF IsList(current)
                THEN \/ part \notin IndexLiterals
                     \/ IntLiterals[part] >= Len(current.items)
                     \/ PointerFails(current.items[IntLiterals[part] + 1], Tail(parts))
                ELSE TRUE

\* C10: when the fragment pointer of a reference fails at some segment, the
\* reference becomes a diagnostic placeholder and the resolution goes on
\* without raising an error.
C10_FragmentFailureIsSoft ==
    [][LET PointerParts(fragment) ==
               LET segs == Split(LStrip(fragment, "/"), "/")
               IN [i \in 1..Len(segs) |-> Join(segs[i])]
       IN  (/\ AtFileRef
            /\ Top.pc = "file_ret"
            /\ Top.fragment # <<>>
            /\ PointerFails(ret, PointerParts(Top.fragment)))
                => /\ status' = "resolving"
                   /\ Len(stack') < Len(stack)
                   /\ DOMAIN ret'.fields = {"$comment"}
                   /\ StartsWith(ret'.fields["$comment"].text,
                                 <<"could not resolve fragment ">>)]_vars

\* The segments of a pointer: the pointer split on "/", one leading empty
\* segment ignored.
Segments(pointer) ==
    LET segs == Split(pointer, "/")
        named == [i \in 1..Len(segs) |-> Join(segs[i])]
    IN IF named[1] = "" THEN Tail(named) ELSE named

\* The sub-node of document current that the segments address
RECURSIVE Addressed(_, _)
Addressed(current, parts) ==
    IF parts = <<>> THEN current
    ELSE IF IsDict(current) THEN Addressed(current.fields[Head(parts)], Tail(parts))
    ELSE Addressed(current.items[IntLiterals[Head(parts)] + 1], Tail(parts))

\* C11: a pointer whose segments all exist in the resolved document (a key
\* on an object, a non-negative index on an array) extracts exactly the
\* sub-node its segments address, which is then handed on for resolution.
C11_PointerYieldsAddressedNode ==
    [][(/\ AtFileRef
        /\ Top.pc = "file_ret"
        /\ Top.fragment # <<>>
        /\ Len(stack) < MaxStack
        /\ ~PointerFails(ret, Segments(Top.fragment)))
            => /\ Len(stack') = Len(stack) + 1
               /\ stack'[Len(stack')].fn = "resolve_node"
               /\ stack'[Len(stack')].node = Addressed(ret, Segments(Top.fragment))]_vars

----------------------------------------------------------------------------
(* Sibling merge *)

\* resolve_node or _inline_unresolved_defs has resolved the reference
\* (Top.resolved) and the siblings (ret) and is about to combine them.
AtSiblingMerge ==
    /\ Running
    /\ Top.fn \in {"resolve_node", "inline_unresolved_defs"}
    /\ Top.pc = "sib_ret"

\* Key k holds an object in both a and b
BothObjects(a, b, k) ==
    /\ k \in DOMAIN a.fields /\ IsDict(a.fields[k])
    /\ k \in DOMAIN b.fields /\ IsDict(b.fields[k])

\* merged holds every key of the siblings, with the sibling's value unless
\* both sides hold an object there
SiblingsWin(target, siblings, merged) ==
    /\ IsDict(merged)
    /\ \A k \in DOMAIN siblings.fields :
        /\ k \in DOMAIN merged.fields
        /\ ~BothObjects(target, siblings, k) => merged.fields[k] = siblings.fields[k]

\* C12: a reference node with sibling keys resolves to the merge of the
\* resolved siblings onto the resolved target: every sibling key is in the
\* result and on a conflict the sibling's value wins.
C12_SiblingsMerged ==
    [][AtSiblingMerge =>
           /\ IsDict(Top.resolved)
           /\ SiblingsWin(Top.resolved, ret, ret')]_vars

\* C12, amended: as above when the resolved target is an object (the keys of
\* the target that no sibling names are kept); when the target is an array
\* or a scalar, the result is the target and the siblings are dropped.
C12_SiblingsMergedOntoObject ==
    [][AtSiblingMerge =>
           IF IsDict(Top.resolved)
           THEN /\ SiblingsWin(Top.resolved, ret, ret')
                /\ DOMAIN ret'.fields = (DOMAIN Top.resolved.fields) \cup (DOMAIN ret.fields)
                /\ \A k \in (DOMAIN Top.resolved.fields) \ (DOMAIN ret.fields) :
                       ret'.fields[k] = Top.resolved.fields[k]
           ELSE ret' = Top.resolved]_vars

\* A sibling has overridden a key of an object target, the other keys of the
\* target are kept.
C12_OverrideApplied ==
    /\ status = "resolved"
    /\ HasKey(files[root_path].root, "p")
    /\ HasKey(files[root_path].root.fields["p"], "$ref")
    /\ HasKey(files[root_path].root.fields["p"], "description")
    /\ PT \in DOMAIN files
    /\ HasKey(files[PT].root, "description")
    /\ HasKey(result.fields["p"], "type")
    /\ result.fields["p"].fields["description"]
           = files[root_path].root.fields["p"].fields["description"]
    /\ result.fields["p"].fields["description"] # files[PT].root.fields["description"]

----------------------------------------------------------------------------
(* Deep merge *)

\* merged is the merge of overlay into base by the stated rule; the two are
\* the value of a "properties" key exactly when under_properties holds.
RECURSIVE MergeRule(_, _, _, _)
MergeRule(base, overlay, merged, under_properties) ==
    LET \* The keys that make an object a complete schema
        CompleteSchemaKeys == {"type", "$ref", "oneOf", "anyOf", "allOf"}
    IN  /\ IsDict(merged)
        /\ DOMAIN merged.fields = (DOMAIN base.fields) \cup (DOMAIN overlay.fields)
        /\ \A k \in DOMAIN merged.fields :
            IF k \notin DOMAIN overlay.fields THEN merged.fields[k] = base.fields[k]
            ELSE IF ~BothObjects(base, overlay, k) THEN merged.fields[k] = overlay.fields[k]
            ELSE IF under_properties
                        /\ (DOMAIN overlay.fields[k].fields) \cap CompleteSchemaKeys # {}
                 THEN merged.fields[k] = overlay.fields[k]
                 ELSE MergeRule(base.fields[k], overlay.fields[k], merged.fields[k],
                                k = "properties")

\* C13: deep_merge replaces the base's value by the overlay's only for a
\* direct child of a "properties" object whose overlay value is an object
\* carrying type, $ref, oneOf, anyOf or allOf; every other pair of objects is
\* merged key by key, and a non-object value is taken from the overlay.
C13_ReplaceOnlyUnderProperties ==
    [][(AtSiblingMerge /\ IsDict(Top.resolved))
           => MergeRule(Top.resolved, ret, ret', FALSE)]_vars

\* The overlay has replaced property x (a complete schema), merged into
\* property y (a bare constraint), and merged key by key outside properties.
C13_ReplacedAndLayered ==
    /\ status = "resolved"
    /\ PT \in DOMAIN files
    /\ HasKey(files[PT].root, "properties")
    /\ HasKey(files[root_path].root, "p")
    /\ HasKey(files[root_path].root.fields["p"], "properties")
    /\ HasKey(result, "p")
    /\ HasKey(result.fields["p"], "properties")
    /\ IsDict(result.fields["p"].fields["properties"])
    /\ LET base == files[PT].root.fields["properties"]
           overlay == files[root_path].root.fields["p"].fields["properties"]
           merged == result.fields["p"].fields["properties"]
       IN /\ BothObjects(base, overlay, "x")
          /\ BothObjects(base, overlay, "y")
          /\ HasKey(merged, "x") /\ HasKey(merged, "y")
          /\ merged.fields["x"] = overlay.fields["x"]
          /\ merged.fields["x"] # base.fields["x"]
          /\ IsDict(merged.fields["y"])
          /\ DOMAIN merged.fields["y"].fields
                 = (DOMAIN base.fields["y"].fields) \cup (DOMAIN overlay.fields["y"].fields)
          /\ merged.fields["y"].fields["type"] = base.fields["y"].fields["type"]

----------------------------------------------------------------------------
(* allOf flattening *)

\* Key occurs on some object of node, at any depth
RECURSIVE KeyOccurs(_, _)
KeyOccurs(node, key) ==
    IF IsDict(node)
    THEN key \in DOMAIN node.fields
         \/ \E k \in DOMAIN node.fields : KeyOccurs(node.fields[k], key)
    ELSE IF IsList(node)
    THEN \E i \in 1..Len(node.items) : KeyOccurs(node.items[i], key)
    ELSE FALSE

\* main is flattening: the step from the stripped document to the output
Flattening == status = "stripped" /\ args.flatten_allof /\ status' = "done"

\* The properties an object defines
PropertiesOf(node) ==
    IF HasKey(node, "properties") /\ IsDict(node.fields["properties"])
    THEN node.fields["properties"].fields ELSE <<>>

\* The object entries of the allOf of node
AllOfEntries(node) ==
    IF HasKey(node, "allOf") /\ IsList(node.fields["allOf"])
    THEN SelectSeq(node.fields["allOf"].items, IsDict) ELSE <<>>

\* The entries of node's allOf and node itself define distinct properties
DistinctProperties(node) ==
    LET entries == AllOfEntries(node)
    IN /\ entries # <<>>
       /\ \A i \in 1..Len(entries) :
           /\ HasKey(entries[i], "properties") => IsDict(entries[i].fields["properties"])
           /\ (DOMAIN PropertiesOf(entries[i])) \cap (DOMAIN PropertiesOf(node)) = {}
           /\ \A j \in 1..Len(entries) :
               i # j => (DOMAIN PropertiesOf(entries[i]))
                            \cap (DOMAIN PropertiesOf(entries[j])) = {}

\* flat has every property that node and the entries of its allOf define;
\* a property whose schema holds no allOf is there as written
PropertiesGathered(node, flat) ==
    LET entries == AllOfEntries(node)
        sources == <<node>> \o entries
    IN \A i \in 1..Len(sources) : \A k \in DOMAIN PropertiesOf(sources[i]) :
        /\ k \in DOMAIN PropertiesOf(flat)
        /\ ~KeyOccurs(PropertiesOf(sources[i])[k], "allOf")
               => PropertiesOf(flat)[k] = PropertiesOf(sources[i])[k]

\* The pairs of an input object and the output object that stands for it:
\* the document itself and, below objects without allOf and arrays, the
\* values at the same key or index.
RECURSIVE FlattenPairs(_, _)
FlattenPairs(node, flat) ==
    IF IsDict(node) /\ IsDict(flat)
    THEN {<<node, flat>>}
             \cup (IF "allOf" \in DOMAIN node.fields THEN {}
                   ELSE UNION { FlattenPairs(node.fields[k], flat.fields[k]) :
                                    k \in (DOMAIN node.fields) \cap (DOMAIN flat.fields) })
    ELSE IF IsList(node) /\ IsList(flat) /\ Len(node.items) = Len(flat.items)
    THEN UNION { FlattenPairs(node.items[i], flat.items[i]) : i \in 1..Len(node.items) }
    ELSE {}

\* C14: the output of flatten_allof has no allOf key on any object at any
\* depth, and an object whose allOf entries define distinct properties comes
\* out with every property of every entry and its own.
C14_NoAllOfLeft ==
    [][Flattening =>
           /\ ~KeyOccurs(output', "allOf")
           /\ \A pair \in FlattenPairs(output, output') :
                  DistinctProperties(pair[1]) => PropertiesGathered(pair[1], pair[2])]_vars

\* A document with allOf at the root and inside an array has been flattened
\* and the properties a and b of the two entries stand side by side.
C14_EntriesCombined ==
    /\ status = "done"
    /\ args.flatten_allof
    /\ DistinctProperties(result)
    /\ HasKey(result, "items")
    /\ KeyOccurs(result.fields["items"], "allOf")
    /\ {"a", "b"} \subseteq DOMAIN PropertiesOf(output)
    /\ {"a", "b"} \subseteq DOMAIN PropertiesOf(output.fields["items"].items[1])
    /\ ~KeyOccurs(output, "allOf")

\* C15: flattening leaves oneOf and anyOf untouched: a oneOf or anyOf of an
\* input object is on the output object that stands for it, with the same
\* alternatives (each one flattened), whatever the entries of the object's
\* allOf carry.
C15_AlternativesUntouched ==
    [][Flattening =>
           \A pair \in FlattenPairs(output, output') :
               \A key \in {"oneOf", "anyOf"} \cap (DOMAIN pair[1].fields) :
                   /\ key \in DOMAIN pair[2].fields
                   /\ pair[2].fields[key] = flatten_allof(pair[1].fields[key])]_vars

----------------------------------------------------------------------------
(* Metadata stripping *)

\* main is stripping: the step from the resolved document to the stripped one
Stripping == status = "resolved" /\ ~args.keep_metadata /\ status' = "stripped"

\* The strip set main passes
ConfiguredStripKeys == IF args.strip_keys_given THEN args.strip_keys ELSE DEFAULT_STRIP_KEYS

\* out is node without the keys of here on node itself and without the keys
\* of below on every object under it; every other key and value is kept.
RECURSIVE StrippedOf(_, _, _, _)
StrippedOf(node, out, here, below) ==
    IF IsDict(node)
    THEN /\ IsDict(out)
         /\ DOMAIN out.fields = (DOMAIN node.fields) \ here
         /\ \A k \in DOMAIN out.fields : StrippedOf(node.fields[k], out.fields[k], below, below)
    ELSE IF IsList(node)
    THEN /\ IsList(out)
         /\ Len(out.items) = Len(node.items)
         /\ \A i \in 1..Len(node.items) : StrippedOf(node.items[i], out.items[i], below, below)
    ELSE out = node

\* C16: stripping removes from every object at every depth the keys of the
\* configured strip set and the vendor-extension keys (prefix "x-"), and
\* keeps every other key.
C16_StripsVendorKeysOnly ==
    [][LET \* The keys of the inputs that start with "x-"
           VendorKeys == XJsonldKeys \cup {"x-vendor-ext"}
       IN  Stripping =>
               StrippedOf(result, output', ConfiguredStripKeys \cup VendorKeys,
                          ConfiguredStripKeys \cup VendorKeys)]_vars

\* C16, amended: stripping removes from every object at every depth the keys
\* of the configured strip set and the keys that start with "x-jsonld",
\* removes $schema from every object below the root, and keeps every other
\* key (a vendor key such as x-vendor-ext included).
C16_StripsJsonldKeys ==
    [][Stripping =>
           StrippedOf(result, output', ConfiguredStripKeys \cup XJsonldKeys,
                      ConfiguredStripKeys \cup XJsonldKeys \cup {"$schema"})]_vars

\* The default strip set has removed $id and x-jsonld-context at the root and
\* $id and x-jsonld-id inside properties; x-vendor-ext and type are kept.
C16_DefaultsStripped ==
    /\ status = "stripped"
    /\ ~args.keep_metadata
    /\ ~args.strip_keys_given
    /\ {"$id", "x-jsonld-context", "x-vendor-ext", "title", "properties"}
           \subseteq Keys(result)
    /\ {"$id", "x-jsonld-context"} \cap Keys(output) = {}
    /\ {"x-vendor-ext", "title", "properties"} \subseteq Keys(output)
    /\ Keys(result.fields["properties"].fields["own"]) = {"type", "$schema", "x-jsonld-id"}
    /\ Keys(output.fields["properties"].fields["own"]) = {"type"}

\* Key occurs on an object below the root of the document
OccursBelowRoot(node, key) ==
    IF IsDict(node) THEN \E k \in DOMAIN node.fields : KeyOccurs(node.fields[k], key)
    ELSE KeyOccurs(node, key)

\* C17: after stripping, $schema occurs at most on the root object: the
\* root's $schema is kept and every $schema below the root is removed.
C17_SchemaOnlyAtRoot ==
    [][Stripping =>
           /\ ~OccursBelowRoot(output', "$schema")
           /\ HasKey(result, "$schema")
                  => /\ HasKey(output', "$schema")
                     /\ output'.fields["$schema"] = result.fields["$schema"]]_vars

\* C17, amended: the root's $schema is kept unless the configured strip set
\* names $schema; every $schema below the root is removed.
C17_SchemaOnlyAtRootUnlessStripped ==
    [][Stripping =>
           /\ ~OccursBelowRoot(output', "$schema")
           /\ IF "$schema" \in ConfiguredStripKeys THEN ~HasKey(output', "$schema")
              ELSE HasKey(result, "$schema")
                       => /\ HasKey(output', "$schema")
                          /\ output'.fields["$schema"] = result.fields["$schema"]]_vars

\* The $schema of an inlined document has been removed, the root's is kept.
C17_InlinedSchemaRemoved ==
    /\ status = "stripped"
    /\ ~args.keep_metadata
    /\ HasKey(result, "$schema")
    /\ HasKey(result, "p")
    /\ HasKey(result.fields["p"], "$schema")
    /\ HasKey(output, "$schema")
    /\ HasKey(output, "p")
    /\ ~OccursBelowRoot(output, "$schema")

----------------------------------------------------------------------------
(* Named blocks *)

\* C18: a reference by identifier and a reference by relative path to the
\* indexed file, with the same fragment and the same in-progress set, yield
\* the same node.
C18_NamedBlockParity ==
    LET \* The root document names one target and fragment twice: p through an
        \* identifier of the index, q through a relative path.
        NamesTargetTwice ==
            LET \* Node is a reference without siblings
                BareRef(node) == IsDict(node) /\ DOMAIN node.fields = {"$ref"} /\ IsStr(node.fields["$ref"])
            IN  /\ HasKey(files[root_path].root, "p")
                /\ HasKey(files[root_path].root, "q")
                /\ BareRef(files[root_path].root.fields["p"])
                /\ BareRef(files[root_path].root.fields["q"])
                /\ LET named == files[root_path].root.fields["p"].fields["$ref"].text
                       byPath == files[root_path].root.fields["q"].fields["$ref"].text
                       remainder == BblocksRemainder(named)
                       identifier == Join(FilePart(remainder))
                   IN /\ StartsWith(named, <<"bblocks:">>)
                      /\ ~StartsWith(byPath, <<"bblocks:">>)
                      /\ ~StartsWith(byPath, <<"#">>)
                      /\ identifier \in DOMAIN bblock_index
                      /\ ResolvePath(Parent(root_path), FilePart(byPath)) = bblock_index[identifier]
                      /\ Fragment(byPath) = Fragment(remainder)
    IN  (status = "resolved" /\ NamesTargetTwice)
            => result.fields["p"] = result.fields["q"]

----------------------------------------------------------------------------
(* Soft and hard failure *)

\* Some key named by the segments is missing on the way down the objects of
\* document current
RECURSIVE MissingKey(_, _)
MissingKey(current, parts) ==
    /\ parts # <<>>
    /\ IsDict(current)
    /\ \/ Head(parts) \notin DOMAIN current.fields
       \/ MissingKey(current.fields[Head(parts)], Tail(parts))

\* C19: a reference to a file that does not exist, to a key its target
\* lacks, or to an identifier absent from the index becomes a diagnostic
\* placeholder where it stands; nothing is raised and every other node gets
\* the value it has without the failing reference.
C19_SoftFail ==
    LET \* The reference of node, written in a file of directory base_dir, names a
        \* file that does not exist, a key its target lacks, or an identifier that
        \* is not in the index.
        FailsSoftly(node, base_dir) ==
            LET \* The fragment names a key that the reference-free document at path lacks
                FragmentMissesKey(path, fragment) ==
                    /\ IsFile(files, path)
                    /\ fragment # <<>>
                    /\ files[path].syntax # "malformed"
                    /\ ~KeyOccurs(files[path].root, "$ref")
                    /\ MissingKey(files[path].root, Segments(fragment))
            IN  /\ HasKey(node, "$ref")
                /\ IsStr(node.fields["$ref"])
                /\ LET ref == node.fields["$ref"].text
                       remainder == BblocksRemainder(ref)
                       identifier == Join(FilePart(remainder))
                       file_path == ResolvePath(base_dir, FilePart(ref))
                   IN IF StartsWith(ref, <<"bblocks:">>)
                      THEN \/ identifier \notin DOMAIN bblock_index
                           \/ FragmentMissesKey(bblock_index[identifier], Fragment(remainder))
                      ELSE /\ ~StartsWith(ref, <<"#">>)
                           /\ \/ ~PathExists(files, file_path)
                              \/ FragmentMissesKey(file_path, Fragment(ref))
        IsDiagnostic(node) ==
            LET \* The texts that open the diagnostic of a reference that cannot be followed
                DiagnosticPrefixes ==
                    { <<"file not found: ">>, <<"could not resolve fragment ">>,
                      <<"bblocks ref not found in local index: ">>,
                      <<"bblocks ref (no index available): ">> }
            IN  /\ HasKey(node, "$comment")
                /\ IsStr(node.fields["$comment"])
                /\ \E prefix \in DiagnosticPrefixes : StartsWith(node.fields["$comment"].text, prefix)
        \* The root inlines d1.json as u and d2.json as v; the two documents are the
        \* same but for p, which in d1.json is a reference that fails softly.
        SoftFailPair ==
            /\ {PD1, PD2} \subseteq DOMAIN files
            /\ files[root_path].root
                   = Obj(("u" :> Ref(RelPath(Parent(root_path), PD1)))
                             @@ ("v" :> Ref(RelPath(Parent(root_path), PD2))))
            /\ HasKey(files[PD1].root, "p")
            /\ HasKey(files[PD2].root, "p")
            /\ DictWithout(files[PD1].root, "p") = DictWithout(files[PD2].root, "p")
            /\ FailsSoftly(files[PD1].root.fields["p"], Parent(PD1))
            /\ ~KeyOccurs(files[PD2].root.fields["p"], "$ref")
    IN  SoftFailPair =>
            /\ status # "raised"
            /\ status = "resolved" =>
                   /\ IsDiagnostic(result.fields["u"].fields["p"])
                   /\ DictWithout(result.fields["u"], "p") = DictWithout(result.fields["v"], "p")

\* C20: when a file that the resolution needs exists and cannot be parsed,
\* the parse error leaves the top-level resolve_file call: every active call
\* is abandoned, no placeholder stands in for the file and no resolved
\* document is returned.
C20_HardFail ==
    [][LET \* resolve_file is about to load a file that exists and cannot be parsed
           LoadsUnparsable ==
               /\ At("resolve_file", "entry")
               /\ Top.path \notin Top.seen
               /\ IsFile(files, Top.path)
               /\ files[Top.path].syntax = "malformed"
       IN  LoadsUnparsable =>
               /\ status' = "raised"
               /\ exc' = "ParseError"
               /\ stack' = <<>>
               /\ result' = Null
               /\ output' = Null]_vars

\* The parse error of a file met below the root document has ended the run.
C20_NestedParseError ==
    /\ status = "raised"
    /\ exc = "ParseError"
    /\ result = Null
    /\ files[root_path].syntax # "malformed"
    /\ \E path \in DOMAIN files : files[path].syntax = "malformed"

\* C21: every $ref string is classified by its literal prefix: "#/" makes it
\* a local pointer, answered from the definitions table without a file or an
\* identifier being looked up; else "bblocks://" or "bblocks:" makes it a
\* named block, whose identifier is the text after the prefix up to the first
\* "#" and whose fragment is the text after that "#"; else it is a file
\* reference, with the path up to the first "#" and the fragment after it.
\* Exactly one class applies, and a URL is a file path like any other.
C21_ClassifiedByPrefix ==
    [][LET UpToHash(s) == IF Contains(s, "#") THEN SubSeq(s, 1, FirstIndex(s, "#") - 1) ELSE s
           AfterHash(s) == IF Contains(s, "#") THEN SubSeq(s, FirstIndex(s, "#") + 1, Len(s))
                           ELSE <<>>
           caller == stack'[Len(stack)]
           callee == stack'[Len(stack')]
           Calls(fn) == Len(stack') = Len(stack) + 1 /\ callee.fn = fn
           Returns(v) == Len(stack') = Len(stack) - 1 /\ status' = "resolving" /\ ret' = v
       IN  /\ (At("resolve_ref", "entry") /\ IsStr(Top.ref) /\ Len(stack) < MaxStack) =>
                LET ref == Top.ref.text
                    path == ResolvePath(Top.base_dir, UpToHash(ref))
                IN  IF StartsWith(ref, <<"#", "/">>)
                    THEN \/ Returns(UnresolvedFragmentRef(ref))
                         \/ \E n \in DOMAIN Top.defs : Returns(Top.defs[n])
                    ELSE IF StartsWith(ref, <<"bblocks:", "/", "/">>)
                                \/ StartsWith(ref, <<"bblocks:">>)
                    THEN IF DOMAIN bblock_index = {}
                         THEN Returns(NoIndexAvailable(ref))
                         ELSE Calls("resolve_bblocks_ref") /\ callee.ref = ref
                    ELSE IF PathExists(files, path)
                         THEN /\ Calls("resolve_file")
                              /\ callee.path = path
                              /\ caller.fragment = AfterHash(ref)
                         ELSE Returns(FileNotFound(path))
           /\ (At("resolve_bblocks_ref", "entry") /\ Len(stack) < MaxStack) =>
                LET ref == Top.ref
                    rest == IF StartsWith(ref, <<"bblocks:", "/", "/">>)
                            THEN SubSeq(ref, 4, Len(ref)) ELSE Tail(ref)
                    identifier == Join(UpToHash(rest))
                IN  IF identifier \in DOMAIN bblock_index
                    THEN /\ Calls("resolve_file")
                         /\ callee.path = bblock_index[identifier]
                         /\ caller.fragment = AfterHash(rest)
                    ELSE Returns(NotInLocalIndex(ref))]_vars

\* A URL has been classified: it was looked up as a path below the directory
\* of the referencing file, where no such file exists.
C21_UrlTakenAsPath ==
    /\ status = "resolved"
    /\ files[root_path].root = Obj(("p" :> Ref(<<"http:", "/", "/", "example.org", "/", "t.json">>))
                                       @@ ("$defs" :> Obj("X" :> Num)))
    /\ result = Obj("p" :> FileNotFound(<<"repo", "http:", "example.org", "t.json">>))

----------------------------------------------------------------------------
(* Several top-level resolutions in one process *)

\* The scheduler takes the processor from the active run and gives it to the
\* parked run t. The run named "solo" is the reference: it has the process
\* to itself until it ends, and only then do the runs "a" and "b" start.
Switch ==
    /\ parked # <<>>
    /\ \E t \in DOMAIN parked \ {"solo"} :
        LET me == CHOOSE n \in DOMAIN parked : parked[n].status = "running"
        IN  /\ t # me
            /\ parked[t].status \notin {"done", "raised"}
            /\ me = "solo" => status \in {"done", "raised"}
            /\ parked' = [parked EXCEPT
                              ![me] = [root_path |-> root_path, stack |-> stack, ret |-> ret,
                                       status |-> status, result |-> result, exc |-> exc,
                                       output |-> output],
                              ![t] = [root_path |-> <<>>, stack |-> <<>>, ret |-> Null,
                                      status |-> "running", result |-> Null, exc |-> "",
                                      output |-> Null]]
            /\ root_path' = parked[t].root_path
            /\ stack' = parked[t].stack
            /\ ret' = parked[t].ret
            /\ status' = parked[t].status
            /\ result' = parked[t].result
            /\ exc' = parked[t].exc
            /\ output' = parked[t].output
    /\ UNCHANGED <<files, bblock_index, args>>

\* resolve_file(root, seen=set(), bblock_index) is called three times on one
\* file system and one index: once alone, then twice side by side. The files
\* reference each other by path, by identifier, with fragments and siblings,
\* through a definition that pass 2 has to walk; c.json can or cannot be
\* parsed.
ConcInit ==
    /\ \E c \in {JsonFile(Leaf), Malformed}, first \in {PA, PB, PT}, second \in {PA, PB, PT} :
        LET Fresh(path) == [root_path |-> path, stack |-> <<>>, ret |-> Null,
                            status |-> "start", result |-> Null, exc |-> "", output |-> Null]
        IN  /\ files = (PA :> JsonFile(Obj("p" :> Ref(<<"bblocks:", "/", "/", BlockId(PT),
                                                         "#", "/", "type">>))))
                            @@ (PB :> YamlFile(Obj("q" :> RefWith(RelPath(Parent(PB), PT)
                                                                      \o <<"#", "/", "$defs">>,
                                                                  "title", S("t")))))
                            @@ (PT :> DefsFile(Obj(("$defs" :> Obj("X" :> Ref(RelPath(Parent(PT), PL))))
                                                       @@ ("type" :> S("object"))),
                                               <<"X">>))
                            @@ (PL :> JsonFile(Arr(<<RefWith(RelPath(Parent(PL), PC),
                                                             "description", S("d"))>>)))
                            @@ (PC :> c)
            /\ bblock_index = FullIndex({PT})
            /\ args = Args(FALSE, FALSE, {}, TRUE)
            /\ root_path = first
            /\ parked = ("solo" :> [Fresh(<<>>) EXCEPT !.status = "running"])
                            @@ ("a" :> Fresh(first)) @@ ("b" :> Fresh(second))
    /\ output = Null
    /\ stack = <<>>
    /\ ret = Null
    /\ status = "start"
    /\ result = Null
    /\ exc = ""

ConcNext == Next \/ Switch

ConcSpec == ConcInit /\ [][ConcNext]_vars

\* C22: of two resolutions that share the file system and the index and
\* whose steps interleave in any order, each ends as the same resolution
\* does when it has the process to itself: the same resolved document, the
\* same written document, or the same exception.
C22_InterleavingInvisible ==
    parked # <<>> =>
        LET Run(n) == IF parked[n].status = "running"
                      THEN [root_path |-> root_path, stack |-> stack, ret |-> ret,
                            status |-> status, result |-> result, exc |-> exc,
                            output |-> output]
                      ELSE parked[n]
            alone == Run("solo")
        IN  \A t \in {"a", "b"} :
                (Run(t).status # "start" /\ Run(t).root_path = alone.root_path) =>
                    /\ alone.status \in {"done", "raised"}
                    /\ Run(t).status \in {"resolved", "stripped", "done"}
                            => alone.status = "done" /\ Run(t).result = alone.result
                    /\ Run(t).status = "done" => Run(t).output = alone.output
                    /\ Run(t).status = "raised"
                            => alone.status = "raised" /\ Run(t).exc = alone.exc

\* Run a, resolving a.json through the index, has ended with the document of
\* the run that was alone, while run b is in the middle of resolving b.yaml.
C22_EndedBesideActiveRun ==
    /\ parked # <<>>
    /\ "p" \in DOMAIN parked["solo"].output.fields
    /\ parked["a"].status = "done"
    /\ parked["a"].root_path = PA
    /\ parked["a"].output = parked["solo"].output
    /\ parked["b"].status = "running"
    /\ root_path = PB
    /\ Len(stack) > 3

\* C23: pass 2 replaces a placeholder for definition N by N's pass-1
\* resolved form, the value N had in the table when pass 1 ended, whether or
\* not pass 2 has already processed N's own entry.
C23_InlinesPass1Form ==
    [][\A n \in {"X", "Y", "Z"} :
            (/\ At("inline_unresolved_defs", "entry")
             /\ Top.node = UnresolvedFragmentRef(LocalRef(n))
             /\ n \in DOMAIN Top.defs)
                => LET file == stack[CHOOSE i \in 1..Len(stack) :
                                        /\ stack[i].fn = "resolve_file"
                                        /\ \A j \in (i + 1)..Len(stack) :
                                                stack[j].fn # "resolve_file"]
                   IN ret' = file.pass1[n]]_vars

C25_RequiredFromAllEntries ==
    [][Flattening =>
           \A pair \in FlattenPairs(output, output') :
                LET sources == <<pair[1]>> \o AllOfEntries(pair[1])
                    Required(s) == IF HasKey(s, "required") /\ IsList(s.fields["required"])
                                   THEN {s.fields["required"].items[i] :
                                            i \in 1..Len(s.fields["required"].items)}
                                   ELSE {}
                IN  HasKey(pair[1], "allOf")
                        => \A i \in 1..Len(sources) : Required(sources[i]) \subseteq Required(pair[2])]_vars

----------------------------------------------------------------------------
(* Frame effects of the resolver *)

\* C26: no call changes what it was given: while a call is active and after
\* it has returned, the in-progress set, the input node and the reference of
\* every call on the stack are what they were (resolve_file adds its path to
\* a set of its own), the index stays, and deep_merge returns a value none of
\* whose dicts and lists is an object of base or overlay.
C26_InputsUntouched ==
    [][/\ bblock_index' = bblock_index
       /\ \A i \in 1..Len(stack) :
            i <= Len(stack')
                => /\ stack'[i].fn = stack[i].fn
                   /\ stack'[i].seen =
                        IF stack[i].fn = "resolve_file" /\ stack[i].pc = "entry"
                           /\ i = Len(stack') /\ stack'[i].pc # "entry"
                        THEN stack[i].seen \cup {stack[i].path}
                        ELSE stack[i].seen
                   /\ stack[i].fn \in {"resolve_node", "inline_unresolved_defs"}
                        => stack'[i].node = stack[i].node
                   /\ stack[i].fn \in {"resolve_ref", "resolve_bblocks_ref"}
                        => stack'[i].ref = stack[i].ref
       /\ (AtSiblingMerge /\ IsDict(Top.resolved))
            => LET RECURSIVE Marked(_, _)
                   Marked(node, owner) ==
                        IF IsDict(node)
                        THEN [Obj([key \in DOMAIN node.fields |-> Marked(node.fields[key], owner)])
                                EXCEPT !.text = <<owner>>]
                        ELSE IF IsList(node)
                        THEN [Arr([j \in 1..Len(node.items) |-> Marked(node.items[j], owner)])
                                EXCEPT !.text = <<owner>>]
                        ELSE node
                   RECURSIVE Owners(_)
                   Owners(node) ==
                        IF IsDict(node)
                        THEN {node.text} \cup UNION {Owners(node.fields[key]) : key \in DOMAIN node.fields}
                        ELSE IF IsList(node)
                        THEN {node.text} \cup UNION {Owners(node.items[j]) : j \in 1..Len(node.items)}
                        ELSE {}
                   merged == deep_merge(Marked(Top.resolved, "base"), Marked(ret, "overlay"))
               IN /\ Owners(merged) = {<<>>}
                  /\ merged = ret']_vars

\* A call that was given a non-empty in-progress set has its resolved target
\* and its resolved siblings back, both holding an object under one key, and
\* is about to merge them.
C26_BackWithBothToMerge ==
    /\ AtSiblingMerge
    /\ Top.seen # {}
    /\ IsDict(Top.resolved) /\ IsDict(ret)
    /\ \E key \in DOMAIN ret.fields : BothObjects(Top.resolved, ret, key)
    /\ \E key \in DOMAIN Top.resolved.fields :
            key \notin DOMAIN ret.fields /\ IsDict(Top.resolved.fields[key])

\* C27: pass 2 puts the content of a definition N in the place of a
\* placeholder only when the placeholder is the one of the reference
\* #/$defs/N; the placeholder of a longer pointer whose last segment is N is
\* not replaced by definition N.
C27_OnlyExactPointerInlined ==
    [][(/\ At("inline_unresolved_defs", "entry")
        /\ IsDict(Top.node)
        /\ DOMAIN Top.node.fields = {"$comment"}
        /\ IsStr(Top.node.fields["$comment"])
        /\ StartsWith(Top.node.fields["$comment"].text, <<"unresolved fragment ref: ">>)
        /\ Len(stack') < Len(stack)
        /\ status' = status)
            => \E name \in DOMAIN Top.defs :
                    /\ Top.node = UnresolvedFragmentRef(LocalRef(name))
                    /\ ret' = Top.defs[name]]_vars

----------------------------------------------------------------------------
(* One definition reached from inside and from outside its file *)

\* C28: the node that the local reference #/$defs/X gives inside d1.json
\* (property p of the inlined d1.json) equals the node that the reference
\* d1.json#/$defs/X gives from a.json.
C28_LocalEqualsCrossFile ==
    (/\ status = "resolved"
     /\ root_path = PA
     /\ HasKey(files[PA].root, "u")
     /\ files[PA].root.fields["u"] = Ref(RelPath(Parent(PA), PD1) \o LocalRef("X"))
     /\ files[PA].root.fields["v"] = Ref(RelPath(Parent(PA), PD1)))
        => result.fields["v"].fields["p"] = result.fields["u"]

----------------------------------------------------------------------------
(* References that name no readable file *)

\* C29: a reference that is neither a #/ pointer nor a bblocks: reference and
\* whose path part is empty or names no file (a directory, nothing at all)
\* gives a diagnostic placeholder: when _resolve_ref answers it at once the
\* answer is a placeholder, and when it calls resolve_file for it that call
\* returns a placeholder and does not raise.
C29_UnreadableTargetIsPlaceholder ==
    [][LET IsPlaceholder(node) == IsDict(node) /\ DOMAIN node.fields = {"$comment"}
           Answered == Len(stack') < Len(stack) /\ status' = status
       IN /\ (/\ At("resolve_ref", "entry")
              /\ IsStr(Top.ref)
              /\ ~StartsWith(Top.ref.text, <<"#", "/">>)
              /\ ~StartsWith(Top.ref.text, <<"bblocks:">>)
              /\ ~IsFile(files, ResolvePath(Top.base_dir, FilePart(Top.ref.text)))
              /\ Answered)
                    => IsPlaceholder(ret')
          /\ (/\ At("resolve_file", "entry")
              /\ Len(stack) > 1
              /\ stack[Len(stack) - 1].fn = "resolve_ref"
              /\ ~IsFile(files, Top.path))
                    => Answered /\ IsPlaceholder(ret')]_vars

----------------------------------------------------------------------------
(* The order of stripping and flattening *)

====
